---- MODULE Spec2Model ----
(***************************************************************************)
(* A model of the indexer service (services/indexer): the symbol registry, *)
(* the storage layer's document and symbol ingestion, the request          *)
(* handlers' validation and ACL gates, the path ACL, the temporal index's  *)
(* CI event buffer, CI failure correlation and commit walk, the embedding  *)
(* providers, the search and path checks at the request boundary, the      *)
(* symbol extractor and its callers, the storage's vector search, the      *)
(* in-memory semantic store, the audit log's redaction, and the search     *)
(* requests from the request to the response.                              *)
(* Each subsystem has its own specification over its own variables; the    *)
(* variables of the other subsystems stay at their initial values.         *)
(***************************************************************************)
EXTENDS Integers, Sequences, FiniteSets, TLC

VARIABLES
    \* ---- symbol registry (symbol_registry.rs) and the symbols table
    symbol_index,   \* SymbolRegistry.symbol_index : SymbolKey -> Uuid
    symbols,        \* SymbolRegistry.symbols      : Uuid -> Symbol
    index_lock,     \* writer holding the RwLock of symbol_index (NoThread: none)
    symbols_lock,   \* writer holding the RwLock of symbols (NoThread: none)
    rpc,            \* per task: the await point its registry call is parked at
    rlocal,         \* per task: the locals of its registry call
    goc_log,        \* history: what get_or_create_symbol returned on this registry
    upd_ret,        \* the last return of update_symbol: id, status, store_symbol called
    rows,           \* the rows of the symbols table
    next_uuid,      \* number of ids Uuid::new_v4() has handed out
    clock,          \* Utc::now()
    \* ---- documents table (storage.rs)
    documents,      \* the rows of the documents table
    doc_call,       \* the last index_document call: its arguments and result
    \* ---- one Storage::index_symbols call (storage.rs)
    is_pc,          \* where the call is: idle, embedding, inserting, done
    is_args,        \* its path and commit_id, the symbols extracted, the last id before it
    is_queue,       \* symbols_to_store not yet handed to embed, in stream order
    is_inflight,    \* symbols whose embed future is in the buffer, not yet ready
    is_results,     \* the collected results, in completion order
    is_count,       \* symbol_count
    is_ret,         \* what the call returned
    \* ---- SecurityConfig (security.rs)
    security_config,  \* allow_all and the normalised allowed_prefixes
    acl_entries,      \* the allowlist the config was built from
    acl_call,         \* the check_path call made on this config, and its result
    \* ---- one request in IndexerServiceImpl (grpc_service.rs)
    rq_pc,          \* where the handler is
    rq,             \* the request
    rq_trace,       \* the collaborators the handler has called, in order
    rq_resp,        \* the response
    rq_count,       \* requests received
    \* ---- TemporalIndex::ci_events (temporal.rs)
    ci_events,      \* the Vec behind the lock
    ci_log,         \* every event recorded so far, in arrival order
    ci_ret,         \* what get_ci_events_for_commit returned, if it was the last call
    \* ---- CI failure correlation (temporal.rs)
    cor_call,       \* the last correlate_ci_failure call: arguments and result
    rel_call,       \* the last calculate_relevance calls: arguments and scores
    \* ---- one TemporalIndex::index_commit_range call (temporal.rs)
    symbol_history, \* TemporalIndex.symbol_history : path -> Vec<SymbolVersion>
    icr_pc,         \* where the call is: idle, walk (revwalk loop), batch, done
    icr_cfg,        \* its arguments, the TemporalConfig and the faulty commits
    icr_revwalk,    \* the commits the revwalk has still to yield
    icr_batch,      \* batch
    icr_pos,        \* position in the batch of the commit process_commit_batch is at
    icr_count,      \* count of process_commit_batch
    icr_indexed,    \* indexed_count
    icr_batch_no,   \* number of batches handed to process_commit_batch so far
    icr_dropped,    \* the caller has dropped the future of the call
    icr_drop_batch, \* icr_batch_no at the time of the drop
    icr_attempts,   \* history: every process_commit call, its outcome and batch
    icr_ret,        \* what the call returned
    \* ---- EmbeddingManager (embeddings.rs)
    emb_call,       \* the last embed call: provider, text, the provider's
                    \* behaviour, the result and the provider calls made
    \* ---- the request boundary (grpc_service.rs, validation.rs, main.rs)
    search_call,    \* the last search request: its fields, the status and the
                    \* top_k handed to storage
    val_call,       \* the last path validation: the site, the path, the verdict
    \* ---- SymbolKind strings (symbol_registry.rs)
    kind_call,      \* the last conversion of a kind string: where, input, result
    ext_call,       \* the last call of extract_symbols: the syntax tree and the symbols returned
    run_call,       \* the last operation that ran the extractor on a file, and its return
    find_call,      \* the last call of Storage::search_documents / search_symbols and its return
    sem_config,     \* SemanticStore.config.max_documents (an Option)
    sem_order,      \* SemanticIndex.order: document ids, oldest first
    sem_records,    \* SemanticIndex.records: id -> DocumentRecord
    sem_by_path,    \* SemanticIndex.by_path: path -> document ids
    sem_next,       \* the ids handed out so far by Uuid::new_v4
    sem_added,      \* history: the ids added to this store, in order
    sem_hist,       \* the last return of history_for_path
    audit_call,     \* the last call of log_audit: the details given and the details emitted
    icr_calls,      \* history: the index_commit_range calls this engine has completed
    served          \* the last SearchDocuments / SearchSymbols request and the response sent

regVars == <<symbol_index, symbols, index_lock, symbols_lock, rpc, rlocal,
             goc_log, upd_ret, rows, next_uuid>>

docVars == <<documents, doc_call>>

isVars == <<is_pc, is_args, is_queue, is_inflight, is_results, is_count, is_ret>>

aclVars == <<security_config, acl_entries, acl_call>>

rqVars == <<rq_pc, rq, rq_trace, rq_resp, rq_count>>

ciVars == <<ci_events, ci_log, ci_ret>>

corVars == <<cor_call, rel_call>>

\* the variables of the subsystems declared after the CI events
walkVars == <<symbol_history, icr_pc, icr_cfg, icr_revwalk, icr_batch, icr_pos,
              icr_count, icr_indexed, icr_batch_no, icr_dropped, icr_drop_batch,
              icr_attempts, icr_ret>>

embVars == <<emb_call>>

boundaryVars == <<search_call, val_call>>

kindVars == <<kind_call>>

extVars == <<ext_call, run_call>>

findVars == <<find_call>>

semVars == <<sem_config, sem_order, sem_records, sem_by_path, sem_next, sem_added, sem_hist>>

auditVars == <<audit_call>>

callVars == <<icr_calls>>

serveVars == <<served>>

laterVars == <<corVars, walkVars, embVars, boundaryVars, kindVars, extVars, findVars, semVars, auditVars, callVars, serveVars>>

vars == <<regVars, clock, docVars, isVars, aclVars, rqVars, ciVars, laterVars>>

\* what the actions of one subsystem leave alone
outsideRegistry == <<docVars, isVars, aclVars, rqVars, ciVars, laterVars>>
outsideDocuments == <<symbol_index, symbols, index_lock, symbols_lock, rpc, rlocal,
                      goc_log, upd_ret, isVars, aclVars, rqVars, ciVars, laterVars>>
outsideIndexSymbols == <<symbol_index, symbols, index_lock, symbols_lock, rpc,
                         rlocal, goc_log, upd_ret, docVars, aclVars, rqVars, ciVars, laterVars>>
outsideAcl == <<regVars, clock, docVars, isVars, rqVars, ciVars, laterVars>>
outsideCi == <<regVars, clock, docVars, isVars, aclVars, rqVars, laterVars>>
earlierVars == <<regVars, clock, docVars, isVars, aclVars, rqVars, ciVars>>

outsideCorrelate == <<earlierVars, walkVars, embVars, boundaryVars, kindVars, extVars, findVars, semVars, auditVars, callVars, serveVars>>

outsideWalk == <<earlierVars, corVars, embVars, boundaryVars, kindVars, extVars, findVars, semVars, auditVars, callVars, serveVars>>

outsideEmbed == <<earlierVars, corVars, walkVars, boundaryVars, kindVars, extVars, findVars, semVars, auditVars, callVars, serveVars>>

outsideBoundary == <<earlierVars, corVars, walkVars, embVars, kindVars, extVars, findVars, semVars, auditVars, callVars, serveVars>>

outsideKinds == <<earlierVars, corVars, walkVars, embVars, boundaryVars, extVars, findVars, semVars, auditVars, callVars, serveVars>>

outsideExtract == <<earlierVars, corVars, walkVars, embVars, boundaryVars, kindVars, findVars, semVars, auditVars, callVars, serveVars>>

outsideFind == <<earlierVars, corVars, walkVars, embVars, boundaryVars, kindVars, extVars, semVars, auditVars, callVars, serveVars>>

outsideSemantic == <<earlierVars, corVars, walkVars, embVars, boundaryVars, kindVars, extVars, findVars, auditVars, callVars, serveVars>>

outsideAudit == <<earlierVars, corVars, walkVars, embVars, boundaryVars, kindVars, extVars, findVars, semVars, callVars, serveVars>>

\* (the walk of the engine is not outside a sequence of calls)
outsideCalls == <<earlierVars, corVars, embVars, boundaryVars, kindVars, extVars, findVars, semVars, auditVars, serveVars>>

outsideServe == <<earlierVars, corVars, walkVars, embVars, boundaryVars, kindVars, extVars, findVars, semVars, auditVars, callVars>>
\* what a handler step leaves alone besides the storage it calls
outsideHandler == <<symbol_index, symbols, index_lock, symbols_lock, rpc, rlocal,
                    goc_log, upd_ret, clock, aclVars, ciVars, laterVars>>

----------------------------------------------------------------------------
\* Bounds of the model.

MaxUuid == 2    \* ids Uuid::new_v4() may hand out in one run
MaxClock == 2   \* ticks of the wall clock in one run
MaxDocCalls == 3  \* index_document calls in one run
MaxSymbols == 5   \* symbols the extractor finds in one file
MaxEmbedFailures == 1  \* embeddings that fail in one index_symbols call
MaxPathLen == 7   \* characters of a path handed to check_path
MaxRequests == 2  \* requests one service instance receives
CiFreeEvents == 2   \* leading CI events whose commit the caller chooses freely
MaxCiOverflow == 2  \* CI events recorded beyond the retention window

Tasks == {"t1", "t2"}
NoThread == "none"
NoId == 0
Ids == 1..MaxUuid
\* strings are sequences of characters; Option<String> is None or Some(s)
NoCommit == <<>>
Some(s) == <<s>>
CommitA == <<"a", "a">>
CommitIds == {CommitA}
NoDoc == "None"

----------------------------------------------------------------------------
\* SymbolKind and its string form.

KindTable ==
    << <<"Function", "function">>, <<"Class", "class">>,
       <<"Interface", "interface">>, <<"Enum", "enum">>,
       <<"Constant", "constant">>, <<"Variable", "variable">>,
       <<"Type", "type">>, <<"Module", "module">>, <<"Method", "method">>,
       <<"Property", "property">>, <<"Namespace", "namespace">>,
       <<"Trait", "trait">>, <<"Impl", "impl">>, <<"Struct", "struct">> >>

SymbolKind == {KindTable[i][1] : i \in DOMAIN KindTable}

\* impl fmt::Display for SymbolKind
KindToString(k) ==
    LET i == CHOOSE j \in DOMAIN KindTable : KindTable[j][1] = k
    IN  KindTable[i][2]

\* impl FromStr for SymbolKind; "Err" stands for Err(())
KindFromStr(s) ==
    IF \E j \in DOMAIN KindTable : KindTable[j][2] = s
    THEN KindTable[CHOOSE j \in DOMAIN KindTable : KindTable[j][2] = s][1]
    ELSE "Err"

----------------------------------------------------------------------------
\* Symbol registry.

Keys ==
    { [path |-> <<"a", ".", "r", "s">>, name |-> "f", kind |-> "Function"],
      [path |-> <<"a", ".", "r", "s">>, name |-> "C", kind |-> "Class"] }

NoSymbol == [id |-> NoId]

\* the arguments of update_symbol the model draws from
UpdateInputs ==
    { [content |-> "v2", location |-> 2, doc_comment |-> "doc", commit_id |-> Some(CommitA)] }

\* the (parent, child) arguments of add_child the model draws from: an edge,
\* its reverse, and a symbol made its own parent
AddChildInputs == { <<1, 2>>, <<2, 1>>, <<2, 2>> }

Present(id) == id \in Ids /\ symbols[id] # NoSymbol

NoLocal == [key |-> NoId, id |-> NoId]

NoUpdate == [id |-> NoId, status |-> "none", store_called |-> FALSE]

\* the Symbol get_or_create_symbol builds for a new key
NewSymbol(id, key) ==
    [id |-> id, key |-> key, content |-> "", location |-> 0,
     doc_comment |-> NoDoc, children |-> <<>>, parent |-> NoId,
     commit_id |-> NoCommit]

\* the Symbol load_from_storage builds from a stored row
SymbolOfRow(r) ==
    LET parsed == KindFromStr(r.kind)
        kind == IF parsed = "Err" THEN "Function" ELSE parsed
    IN  [id |-> r.id,
         key |-> [path |-> r.path, name |-> r.name, kind |-> kind],
         content |-> r.content, location |-> r.start_line,
         doc_comment |-> NoDoc, children |-> <<>>, parent |-> NoId,
         commit_id |-> r.commit_id]

\* the StoredSymbol update_symbol builds from the in-memory Symbol
RowOfSymbol(s, doc) ==
    [id |-> s.id, path |-> s.key.path, name |-> s.key.name,
     kind |-> KindToString(s.key.kind), content |-> s.content,
     commit_id |-> s.commit_id, start_line |-> s.location,
     metadata |-> doc]

\* the first lookup of get_or_create_symbol, under the read lock of the index
GocLookup(key) == symbol_index[key]

\* (a second lookup that never finds the key: no double check)
GocRecheckNever(key) == NoId

\* the second lookup, after both write locks are held
GocRecheck(key) == symbol_index[key]

InitRegistry ==
    /\ symbol_index = [k \in Keys |-> NoId]
    /\ symbols = [i \in Ids |-> NoSymbol]
    /\ index_lock = NoThread
    /\ symbols_lock = NoThread
    /\ rpc = [t \in Tasks |-> "idle"]
    /\ rlocal = [t \in Tasks |-> NoLocal]
    /\ goc_log = {}
    /\ upd_ret = NoUpdate
    /\ rows = {}
    /\ next_uuid = 0

\* get_or_create_symbol up to its first await on a write lock: the lookup
\* under the read lock, and Uuid::new_v4() when the key is not found
GocBegin(t, key) ==
    /\ rpc[t] = "idle"
    /\ index_lock = NoThread
    /\ IF GocLookup(key) # NoId
       THEN /\ goc_log' = goc_log \cup {[key |-> key, id |-> GocLookup(key), inserted |-> FALSE]}
            /\ UNCHANGED <<rpc, rlocal, next_uuid>>
       ELSE /\ next_uuid < MaxUuid
            /\ next_uuid' = next_uuid + 1
            /\ rlocal' = [rlocal EXCEPT ![t] = [key |-> key, id |-> next_uuid + 1]]
            /\ rpc' = [rpc EXCEPT ![t] = "goc_index"]
            /\ UNCHANGED goc_log
    /\ UNCHANGED <<symbol_index, symbols, index_lock, symbols_lock, rows, upd_ret, clock,
                   outsideRegistry>>

\* self.symbol_index.write().await
GocLockIndex(t) ==
    /\ rpc[t] = "goc_index"
    /\ index_lock = NoThread
    /\ index_lock' = t
    /\ rpc' = [rpc EXCEPT ![t] = "goc_symbols"]
    /\ UNCHANGED <<symbol_index, symbols, symbols_lock, rlocal, goc_log, upd_ret, rows,
                   next_uuid, clock, outsideRegistry>>

\* self.symbols.write().await, the second lookup, the two inserts, and the
\* release of both locks on return
GocInsert(t) ==
    LET key == rlocal[t].key
        id == rlocal[t].id
        existing == GocRecheck(key)
    IN  /\ rpc[t] = "goc_symbols"
        /\ symbols_lock = NoThread
        /\ IF existing # NoId
           THEN /\ goc_log' = goc_log \cup {[key |-> key, id |-> existing, inserted |-> FALSE]}
                /\ UNCHANGED <<symbol_index, symbols>>
           ELSE /\ symbol_index' = [symbol_index EXCEPT ![key] = id]
                /\ symbols' = [symbols EXCEPT ![id] = NewSymbol(id, key)]
                /\ goc_log' = goc_log \cup {[key |-> key, id |-> id, inserted |-> TRUE]}
        /\ index_lock' = NoThread
        /\ rpc' = [rpc EXCEPT ![t] = "idle"]
        /\ rlocal' = [rlocal EXCEPT ![t] = NoLocal]
        /\ UNCHANGED <<symbols_lock, rows, next_uuid, upd_ret, clock, outsideRegistry>>

\* (an update_symbol that creates the Symbol it does not find)
UpdateOrCreate(t, id, in) ==
    /\ rpc[t] = "idle"
    /\ symbols_lock = NoThread
    /\ symbols' = [symbols EXCEPT ![id] =
           [(IF Present(id) THEN @ ELSE NewSymbol(id, CHOOSE k \in Keys : TRUE))
               EXCEPT !.content = in.content, !.location = in.location,
                      !.doc_comment = in.doc_comment, !.commit_id = in.commit_id]]
    /\ symbols_lock' = t
    /\ rpc' = [rpc EXCEPT ![t] = "upd_store"]
    /\ rlocal' = [rlocal EXCEPT ![t] = [key |-> NoId, id |-> id]]
    /\ UNCHANGED <<symbol_index, index_lock, goc_log, upd_ret, rows, next_uuid, clock,
                   outsideRegistry>>

\* update_symbol up to its await on storage.store_symbol: the write lock is
\* taken, the Symbol is mutated in place, and the lock is held across the await
UpdateBegin(t, id, in) ==
    /\ rpc[t] = "idle"
    /\ symbols_lock = NoThread
    /\ IF Present(id)
       THEN /\ symbols' = [symbols EXCEPT ![id] =
                   [@ EXCEPT !.content = in.content, !.location = in.location,
                             !.doc_comment = in.doc_comment,
                             !.commit_id = in.commit_id]]
            /\ symbols_lock' = t
            /\ rpc' = [rpc EXCEPT ![t] = "upd_store"]
            /\ rlocal' = [rlocal EXCEPT ![t] = [key |-> NoId, id |-> id]]
            /\ UNCHANGED upd_ret
       ELSE /\ upd_ret' = [id |-> id, status |-> "Ok", store_called |-> FALSE]
            /\ UNCHANGED <<symbols, symbols_lock, rpc, rlocal>>
    /\ UNCHANGED <<symbol_index, index_lock, goc_log, rows, next_uuid, clock, outsideRegistry>>

\* Storage::store_symbol: INSERT ... ON CONFLICT (id) DO UPDATE
StoreSymbol(table, row) ==
    IF \E r \in table : r.id = row.id
    THEN {IF r.id = row.id
          THEN [r EXCEPT !.content = row.content, !.commit_id = row.commit_id,
                         !.start_line = row.start_line, !.metadata = row.metadata]
          ELSE r : r \in table}
    ELSE table \cup {row}

\* (an update_symbol that, still holding the symbols lock, waits for the
\* index lock before it returns)
UpdateStoreThenIndex(t, ok) ==
    LET s == symbols[rlocal[t].id]
    IN  /\ rpc[t] = "upd_store"
        /\ index_lock = NoThread
        /\ rows' = IF ok THEN StoreSymbol(rows, RowOfSymbol(s, s.doc_comment)) ELSE rows
        /\ symbols_lock' = NoThread
        /\ rpc' = [rpc EXCEPT ![t] = "idle"]
        /\ rlocal' = [rlocal EXCEPT ![t] = NoLocal]
        /\ upd_ret' = [id |-> rlocal[t].id, status |-> IF ok THEN "Ok" ELSE "Err",
                       store_called |-> TRUE]
        /\ UNCHANGED <<symbol_index, symbols, index_lock, goc_log, next_uuid, clock, outsideRegistry>>

\* update_symbol after the await: store_symbol returned Ok (ok) or an error;
\* either way the write lock is released on return
UpdateStore(t, ok) ==
    LET s == symbols[rlocal[t].id]
    IN  /\ rpc[t] = "upd_store"
        /\ rows' = IF ok THEN StoreSymbol(rows, RowOfSymbol(s, s.doc_comment)) ELSE rows
        /\ symbols_lock' = NoThread
        /\ rpc' = [rpc EXCEPT ![t] = "idle"]
        /\ rlocal' = [rlocal EXCEPT ![t] = NoLocal]
        /\ upd_ret' = [id |-> rlocal[t].id, status |-> IF ok THEN "Ok" ELSE "Err",
                       store_called |-> TRUE]
        /\ UNCHANGED <<symbol_index, symbols, index_lock, goc_log, next_uuid, clock, outsideRegistry>>

\* (a mark_deleted that drops the entry instead of marking it)
MarkDeletedRemoves(id, commit) ==
    /\ symbols_lock = NoThread
    /\ symbols' = IF Present(id) THEN [symbols EXCEPT ![id] = NoSymbol] ELSE symbols
    /\ UNCHANGED <<symbol_index, index_lock, symbols_lock, rpc, rlocal, goc_log, upd_ret,
                   rows, next_uuid, clock, outsideRegistry>>

\* mark_deleted: no await between taking and releasing the write lock
MarkDeleted(id, commit) ==
    /\ symbols_lock = NoThread
    /\ symbols' = IF Present(id)
                  THEN [symbols EXCEPT ![id].commit_id = Some(commit)]
                  ELSE symbols
    /\ UNCHANGED <<symbol_index, index_lock, symbols_lock, rpc, rlocal, goc_log, upd_ret,
                   rows, next_uuid, clock, outsideRegistry>>

\* add_child: no await between taking and releasing the write lock
AddChild(parent_id, child_id) ==
    LET withChild ==
            IF Present(parent_id)
               /\ \A i \in DOMAIN symbols[parent_id].children :
                      symbols[parent_id].children[i] # child_id
            THEN [symbols EXCEPT ![parent_id].children = Append(@, child_id)]
            ELSE symbols
    IN  /\ symbols_lock = NoThread
        /\ symbols' = IF child_id \in Ids /\ withChild[child_id] # NoSymbol
                      THEN [withChild EXCEPT ![child_id].parent = parent_id]
                      ELSE withChild
        /\ UNCHANGED <<symbol_index, index_lock, symbols_lock, rpc, rlocal, goc_log, upd_ret,
                       rows, next_uuid, clock, outsideRegistry>>

\* Storage::index_symbols, one extracted symbol: a row with a fresh id is
\* inserted whatever rows the table already holds for that path, name and kind
InsertSymbolRow(key) ==
    /\ next_uuid < MaxUuid
    /\ next_uuid' = next_uuid + 1
    /\ rows' = rows \cup
         {[id |-> next_uuid + 1, path |-> key.path, name |-> key.name,
           kind |-> KindToString(key.kind), content |-> "v0",
           commit_id |-> NoCommit, start_line |-> 0, metadata |-> NoDoc]}
    /\ UNCHANGED <<symbol_index, symbols, index_lock, symbols_lock, rpc, rlocal,
                   goc_log, upd_ret, clock, outsideRegistry>>

\* SymbolRegistry::new over the current table: load_from_storage inserts every
\* row in the order query_all_symbols returned them (no ORDER BY), so for a key
\* held by several rows any of them may be the last insert into the index
RegistryNew(last) ==
    /\ \A t \in Tasks : rpc[t] = "idle"
    /\ symbols' = [i \in Ids |->
                      IF \E r \in rows : r.id = i
                      THEN SymbolOfRow(CHOOSE r \in rows : r.id = i)
                      ELSE NoSymbol]
    /\ symbol_index' = [k \in Keys |->
                      IF \E r \in rows : SymbolOfRow(r).key = k
                      THEN last[k]
                      ELSE NoId]
    /\ goc_log' = {}
    /\ upd_ret' = NoUpdate
    /\ UNCHANGED <<index_lock, symbols_lock, rpc, rlocal, rows, next_uuid, clock, outsideRegistry>>

\* the choices of "last row inserted for each key" the table's rows allow
LastRowChoices ==
    {f \in [Keys -> Ids \cup {NoId}] :
        \A k \in Keys :
            IF \E r \in rows : SymbolOfRow(r).key = k
            THEN \E r \in rows : SymbolOfRow(r).key = k /\ r.id = f[k]
            ELSE f[k] = NoId}

\* concurrent calls on one registry
NextRegistry ==
    \/ \E t \in Tasks, k \in Keys : GocBegin(t, k)
    \/ \E t \in Tasks : GocLockIndex(t)
    \/ \E t \in Tasks : GocInsert(t)
    \/ \E t \in Tasks, id \in Ids, in \in UpdateInputs : UpdateBegin(t, id, in)
    \/ \E t \in Tasks, ok \in BOOLEAN : UpdateStore(t, ok)
    \/ \E id \in Ids, c \in CommitIds : MarkDeleted(id, c)
    \/ \E pc \in AddChildInputs : AddChild(pc[1], pc[2])

\* one caller; the symbols table is also written by Storage::index_symbols,
\* and the registry is rebuilt from it
NextHydrate ==
    \/ \E k \in Keys : GocBegin("t1", k)
    \/ GocLockIndex("t1")
    \/ GocInsert("t1")
    \/ \E id \in Ids, in \in UpdateInputs : UpdateBegin("t1", id, in)
    \/ \E ok \in BOOLEAN : UpdateStore("t1", ok)
    \/ \E id \in Ids, c \in CommitIds : MarkDeleted(id, c)
    \/ \E pc \in AddChildInputs : AddChild(pc[1], pc[2])
    \/ \E k \in Keys : InsertSymbolRow(k)
    \/ \E last \in LastRowChoices : RegistryNew(last)

----------------------------------------------------------------------------
\* Documents table.

Paths == {<<"a", "/", "x", ".", "r", "s">>, <<"b", "/", "y", ".", "m", "d">>}
Contents == {<<"A">>, <<"B">>}
OptCommits == {NoCommit, Some(CommitA)}

\* EmbeddingManager::embed as the storage layer sees it: a vector that is a
\* function of the text
EmbeddingOf(text) == <<"vec", text>>

\* (an INSERT without the ON CONFLICT clause)
InsertDocument(table, row) == table \cup {row}

\* INSERT INTO documents ... ON CONFLICT (path) DO UPDATE SET content,
\* embedding_vector, commit_id, updated_at
UpsertDocument(table, row) ==
    IF \E r \in table : r.path = row.path
    THEN {IF r.path = row.path
          THEN [r EXCEPT !.content = row.content, !.embedding = row.embedding,
                         !.commit_id = row.commit_id, !.updated_at = row.updated_at]
          ELSE r : r \in table}
    ELSE table \cup {row}

NoCall == [n |-> 0, path |-> <<>>, content |-> <<>>, commit_id |-> NoCommit,
           result |-> "", id |-> NoId]

InitDocuments ==
    /\ documents = {}
    /\ doc_call = NoCall

\* Storage::index_document; embedded and stored tell whether embed and the
\* query succeeded
IndexDocumentCall(path, content, commit_id, embedded, stored) ==
    LET id == next_uuid + 1
        row == [id |-> id, path |-> path, content |-> content,
                embedding |-> EmbeddingOf(content), commit_id |-> commit_id,
                created_at |-> clock, updated_at |-> clock]
        call(result, ret) ==
            [n |-> doc_call.n + 1, path |-> path, content |-> content,
             commit_id |-> commit_id, result |-> result, id |-> ret]
    IN  /\ doc_call.n < MaxDocCalls
        /\ IF ~embedded
           THEN /\ doc_call' = call("EmbeddingError", NoId)
                /\ UNCHANGED <<documents, next_uuid>>
           ELSE /\ next_uuid' = id
                /\ IF stored
                   THEN /\ documents' = UpsertDocument(documents, row)
                        /\ doc_call' = call("Ok", id)
                   ELSE /\ doc_call' = call("DatabaseError", NoId)
                        /\ UNCHANGED documents

\* index_document called on the storage directly
IndexDocument(path, content, commit_id, embedded, stored) ==
    /\ IndexDocumentCall(path, content, commit_id, embedded, stored)
    /\ UNCHANGED <<rows, clock, outsideDocuments>>

\* the wall clock advances
Tick ==
    /\ clock < MaxClock
    /\ clock' = clock + 1
    /\ UNCHANGED <<regVars, docVars, isVars, aclVars, rqVars, ciVars, laterVars>>

NextDocuments ==
    \/ \E p \in Paths, c \in Contents, k \in OptCommits, e, st \in BOOLEAN :
          IndexDocument(p, c, k, e, st)
    \/ Tick

----------------------------------------------------------------------------
\* Storage::index_symbols.

\* let concurrency = 4
concurrency == 4

\* an extraction result with n symbols: a class holding up to two methods,
\* followed by top-level functions
Extracted(i, kind, children) ==
    [name |-> <<"s", i>>, kind |-> kind, content |-> <<"text", i>>,
     start_line |-> i, doc_comment |-> NoDoc, children |-> children]

Forest(n) ==
    IF n = 0 THEN <<>>
    ELSE <<Extracted(1, "Class",
              [j \in 1..(IF n < 3 THEN n - 1 ELSE 2) |-> Extracted(j + 1, "Method", <<>>)])>>
         \o [j \in 1..(IF n < 3 THEN 0 ELSE n - 3) |-> Extracted(j + 3, "Function", <<>>)]

\* what extract_symbols may return: an error, or a forest
ExtractResults ==
    {[ok |-> FALSE, symbols |-> <<>>]}
        \cup {[ok |-> TRUE, symbols |-> Forest(n)] : n \in 0..MaxSymbols}

RECURSIVE FlattenTopLevel(_, _, _, _)
\* (a flattening that leaves the children out)
FlattenTopLevel(extracted, path, commit_id, out) ==
    IF extracted = <<>> THEN out
    ELSE LET e == Head(extracted)
             symbol == [id |-> next_uuid + Len(out) + 1, path |-> path,
                        name |-> e.name, kind |-> KindToString(e.kind),
                        content |-> e.content, embedding |-> <<>>,
                        commit_id |-> commit_id, start_line |-> e.start_line,
                        metadata |-> e.doc_comment]
         IN  FlattenTopLevel(Tail(extracted), path, commit_id, Append(out, symbol))

\* fn flatten_symbols: preorder, each symbol given a fresh id (base + its
\* position in the output)
RECURSIVE FlattenSymbols(_, _, _, _)
FlattenSymbols(extracted, path, commit_id, out) ==
    IF extracted = <<>> THEN out
    ELSE LET e == Head(extracted)
             symbol == [id |-> next_uuid + Len(out) + 1, path |-> path,
                        name |-> e.name, kind |-> KindToString(e.kind),
                        content |-> e.content, embedding |-> <<>>,
                        commit_id |-> commit_id, start_line |-> e.start_line,
                        metadata |-> e.doc_comment]
             withChildren == FlattenSymbols(e.children, path, commit_id,
                                            Append(out, symbol))
         IN  FlattenSymbols(Tail(extracted), path, commit_id, withChildren)

\* Result<usize, StorageError> of index_symbols
IsReturn(status, count) == [status |-> status, count |-> count]

InitIndexSymbols ==
    /\ is_pc = "idle"
    /\ is_args = <<>>
    /\ is_queue = <<>>
    /\ is_inflight = {}
    /\ is_results = <<>>
    /\ is_count = 0
    /\ is_ret = IsReturn("none", 0)

\* index_symbols up to the stream: extraction, flattening
IndexSymbolsCall(path, extracted, commit_id) ==
    /\ is_pc = "idle"
    /\ IF ~extracted.ok
       THEN /\ is_pc' = "done"
            /\ is_ret' = IsReturn("InvalidInput", 0)
            /\ UNCHANGED <<is_queue, next_uuid>>
       ELSE /\ is_queue' = FlattenSymbols(extracted.symbols, path, commit_id, <<>>)
            /\ next_uuid' = next_uuid + Len(is_queue')
            /\ is_pc' = "embedding"
            /\ UNCHANGED is_ret
    /\ is_args' = [path |-> path, commit_id |-> commit_id,
                   symbols |-> extracted.symbols, base |-> next_uuid]
    /\ UNCHANGED <<is_inflight, is_results, is_count, rows>>

\* index_symbols called on the storage directly
IndexSymbolsBegin(path, extracted, commit_id) ==
    /\ IndexSymbolsCall(path, extracted, commit_id)
    /\ UNCHANGED <<clock, outsideIndexSymbols>>

\* (a buffer that takes every future the stream has)
BufferHasRoomAlways == TRUE

\* buffer_unordered(concurrency): the buffer takes the next future of the
\* stream while it holds fewer than concurrency
BufferHasRoom == Cardinality(is_inflight) < concurrency

\* buffer_unordered pulls the next symbol from the stream and starts its
\* embed future
StartEmbed ==
    /\ is_pc = "embedding"
    /\ is_queue # <<>>
    /\ BufferHasRoom
    /\ is_inflight' = is_inflight \cup {Head(is_queue)}
    /\ is_queue' = Tail(is_queue)
    /\ UNCHANGED <<is_pc, is_args, is_results, is_count, is_ret, rows, next_uuid,
                   clock, outsideIndexSymbols>>

EmbedFailures == Cardinality({i \in DOMAIN is_results : ~is_results[i].ok})

\* one embed future of the buffer becomes ready, with a vector (ok) or an
\* error; the buffer is polled only once it is full or the stream is empty
FinishEmbed(symbol, ok) ==
    /\ is_pc = "embedding"
    /\ symbol \in is_inflight
    /\ is_queue = <<>> \/ ~BufferHasRoom
    /\ ok \/ EmbedFailures < MaxEmbedFailures
    /\ is_inflight' = is_inflight \ {symbol}
    /\ is_results' = Append(is_results,
           [ok |-> ok,
            symbol |-> IF ok THEN [symbol EXCEPT !.embedding = EmbeddingOf(symbol.content)]
                       ELSE symbol])
    /\ UNCHANGED <<is_pc, is_args, is_queue, is_count, is_ret, rows, next_uuid, clock,
                   outsideIndexSymbols>>

\* .collect().await returns once the stream and the buffer are empty
CollectDone ==
    /\ is_pc = "embedding"
    /\ is_queue = <<>>
    /\ is_inflight = {}
    /\ is_pc' = "inserting"
    /\ UNCHANGED <<is_args, is_queue, is_inflight, is_results, is_count, is_ret, rows,
                   next_uuid, clock, outsideIndexSymbols>>

\* the row INSERT INTO symbols writes for a collected symbol
SymbolRow(symbol) ==
    [id |-> symbol.id, path |-> symbol.path, name |-> symbol.name,
     kind |-> symbol.kind, content |-> symbol.content,
     commit_id |-> symbol.commit_id, start_line |-> symbol.start_line,
     metadata |-> symbol.metadata]

\* one turn of "for result in results": result? returns the embedding error,
\* otherwise the row is inserted (stored: the INSERT succeeded)
InsertNext(stored) ==
    /\ is_pc = "inserting"
    /\ IF is_results = <<>>
       THEN /\ is_pc' = "done"
            /\ is_ret' = IsReturn("Ok", is_count)
            /\ UNCHANGED <<is_results, is_count, rows>>
       ELSE IF ~Head(is_results).ok
       THEN /\ is_pc' = "done"
            /\ is_ret' = IsReturn("EmbeddingError", 0)
            /\ UNCHANGED <<is_results, is_count, rows>>
       ELSE IF ~stored
       THEN /\ is_pc' = "done"
            /\ is_ret' = IsReturn("DatabaseError", 0)
            /\ UNCHANGED <<is_results, is_count, rows>>
       ELSE /\ rows' = rows \cup {SymbolRow(Head(is_results).symbol)}
            /\ is_count' = is_count + 1
            /\ is_results' = Tail(is_results)
            /\ UNCHANGED <<is_pc, is_ret>>
    /\ UNCHANGED <<is_args, is_queue, is_inflight, next_uuid, clock, outsideIndexSymbols>>

NextIndexSymbols ==
    \/ \E p \in Paths, x \in ExtractResults, k \in OptCommits : IndexSymbolsBegin(p, x, k)
    \/ StartEmbed
    \/ \E s \in is_inflight, ok \in BOOLEAN : FinishEmbed(s, ok)
    \/ CollectDone
    \/ \E stored \in BOOLEAN : InsertNext(stored)

----------------------------------------------------------------------------
\* Access control (security.rs).

PathChars == {"/", ".", "a"}
PathStrings == UNION {[1..n -> PathChars] : n \in 0..MaxPathLen}

\* allowlists: INDEXER_ACL_ALLOW split at commas, or the argument of with_rules
AllowLists ==
    { <<>>, <<<<"a">>>>, <<<<"a", "/", "a">>>>, <<<<".", ".", "/", "a">>>>, <<<<".", ".", "/", "a">>, <<"a", "/", "a">>>>,
      <<<<"*">>, <<"a">>>>, <<<<"/">>>> }

\* the pieces of a path between its separators, empty ones included
RECURSIVE SplitPath(_, _, _)
SplitPath(path, current, out) ==
    IF path = <<>> THEN Append(out, current)
    ELSE IF Head(path) = "/"
         THEN SplitPath(Tail(path), <<>>, Append(out, current))
         ELSE SplitPath(Tail(path), Append(current, Head(path)), out)

Segments(path) == SplitPath(path, <<>>, <<>>)

\* Path::components (Unix): RootDir for a leading separator, CurDir only for
\* a leading "." of a relative path, repeated separators and other "."
\* dropped, no Prefix component
RECURSIVE ComponentsFrom(_, _, _, _)
ComponentsFrom(segs, i, hasRoot, out) ==
    IF i > Len(segs) THEN out
    ELSE LET seg == segs[i]
         IN  IF seg = <<>> THEN ComponentsFrom(segs, i + 1, hasRoot, out)
             ELSE IF seg = <<".">>
             THEN ComponentsFrom(segs, i + 1, hasRoot,
                      IF i = 1 /\ ~hasRoot
                      THEN Append(out, [type |-> "CurDir", segment |-> seg])
                      ELSE out)
             ELSE ComponentsFrom(segs, i + 1, hasRoot,
                      Append(out, [type |-> IF seg = <<".", ".">> THEN "ParentDir"
                                            ELSE "Normal",
                                   segment |-> seg]))

Components(path) ==
    LET hasRoot == path # <<>> /\ Head(path) = "/"
    IN  (IF hasRoot THEN <<[type |-> "RootDir", segment |-> <<>>]>> ELSE <<>>)
            \o ComponentsFrom(Segments(path), 1, hasRoot, <<>>)

\* (a pop that stays at the root)
PopClamped(normalized) ==
    [ok |-> TRUE,
     path |-> IF normalized = <<>> THEN <<>>
              ELSE SubSeq(normalized, 1, Len(normalized) - 1)]

\* PathBuf::pop on an absolute path, kept as the sequence of its segments
\* below "/": false at the root
Pop(normalized) ==
    IF normalized = <<>> THEN [ok |-> FALSE, path |-> <<>>]
    ELSE [ok |-> TRUE, path |-> SubSeq(normalized, 1, Len(normalized) - 1)]

\* the loop of normalize_path
RECURSIVE NormalizeFrom(_, _)
NormalizeFrom(components, normalized) ==
    IF components = <<>> THEN [ok |-> TRUE, path |-> normalized]
    ELSE LET c == Head(components)
         IN  IF c.type = "RootDir" THEN NormalizeFrom(Tail(components), <<>>)
             ELSE IF c.type = "CurDir" THEN NormalizeFrom(Tail(components), normalized)
             ELSE IF c.type = "ParentDir"
             THEN IF ~Pop(normalized).ok THEN [ok |-> FALSE, path |-> <<>>]
                  ELSE NormalizeFrom(Tail(components), Pop(normalized).path)
             ELSE NormalizeFrom(Tail(components), Append(normalized, c.segment))

\* fn normalize_path: None is ok = FALSE
NormalizePath(path) == NormalizeFrom(Components(path), <<>>)

\* fn normalize_allowed_prefixes
RECURSIVE NormalizeAllowedPrefixes(_, _)
NormalizeAllowedPrefixes(entries, acc) ==
    IF entries = <<>> THEN acc
    ELSE LET entry == Head(entries)
         IN  IF entry = <<"*">>
             THEN NormalizeAllowedPrefixes(Tail(entries), [acc EXCEPT !.allow_all = TRUE])
             ELSE IF NormalizePath(entry).ok
             THEN NormalizeAllowedPrefixes(Tail(entries),
                      [acc EXCEPT !.allowed_prefixes = Append(@, NormalizePath(entry).path)])
             ELSE NormalizeAllowedPrefixes(Tail(entries), acc)

\* Path::starts_with: whole components
StartsWith(path, prefix) ==
    /\ Len(prefix) <= Len(path)
    /\ SubSeq(path, 1, Len(prefix)) = prefix

\* SecurityConfig::check_path
CheckPathResult(config, path) ==
    IF ~NormalizePath(path).ok THEN "AclViolation"
    ELSE IF config.allow_all THEN "Ok"
    ELSE IF config.allowed_prefixes = <<>> THEN "AclViolation"
    ELSE IF \E i \in DOMAIN config.allowed_prefixes :
                StartsWith(NormalizePath(path).path, config.allowed_prefixes[i])
    THEN "Ok"
    ELSE "AclViolation"

NoAclCall == [called |-> FALSE, path |-> <<>>, result |-> "none"]

\* SecurityConfig::from_env with INDEXER_ACL_ALLOW unset
InitAcl ==
    /\ security_config = [allow_all |-> FALSE, allowed_prefixes |-> <<>>]
    /\ acl_entries = <<>>
    /\ acl_call = NoAclCall

\* SecurityConfig::with_rules, and from_env with INDEXER_ACL_ALLOW set: the
\* config is built before it is used and never changes afterwards
WithRules(entries) ==
    /\ ~acl_call.called
    /\ security_config' =
           NormalizeAllowedPrefixes(entries, [allow_all |-> FALSE, allowed_prefixes |-> <<>>])
    /\ acl_entries' = entries
    /\ acl_call' = NoAclCall
    /\ UNCHANGED outsideAcl

\* check_path on the config
CheckPath(path) ==
    /\ ~acl_call.called
    /\ acl_call' = [called |-> TRUE, path |-> path,
                    result |-> CheckPathResult(security_config, path)]
    /\ UNCHANGED <<security_config, acl_entries, outsideAcl>>

NextAcl ==
    \/ \E entries \in AllowLists : WithRules(entries)
    \/ \E path \in PathStrings : CheckPath(path)

----------------------------------------------------------------------------
\* Strings.

Whitespace == {" ", "TAB", "CR", "LF"}
ControlChars == {"NUL", "CR", "LF"}
Digits == {"0", "1", "2", "3", "4", "5", "6", "7", "8", "9"}
UpperCase == <<"A", "B", "C", "D", "E", "F", "G", "H", "I", "J", "K", "L", "M", "N", "O", "P", "Q", "R", "S", "T", "U", "V", "W", "X", "Y", "Z">>
LowerCase == <<"a", "b", "c", "d", "e", "f", "g", "h", "i", "j", "k", "l", "m", "n", "o", "p", "q", "r", "s", "t", "u", "v", "w", "x", "y", "z">>
HexDigits == {"0", "1", "2", "3", "4", "5", "6", "7", "8", "9", "a", "b", "c", "d", "e", "f", "A", "B", "C", "D", "E", "F"}
Range(seq) == {seq[i] : i \in DOMAIN seq}

\* str.trim().is_empty()
IsBlank(str) == \A i \in DOMAIN str : str[i] \in Whitespace

\* str::contains
Contains(hay, needle) ==
    \E i \in 0..(Len(hay) - Len(needle)) : SubSeq(hay, i + 1, i + Len(needle)) = needle

\* str::ends_with
EndsWith(str, suffix) ==
    /\ Len(suffix) <= Len(str)
    /\ SubSeq(str, Len(str) - Len(suffix) + 1, Len(str)) = suffix

\* char::is_alphanumeric, on ASCII
IsAlphanumeric(c) == c \in Digits \cup Range(UpperCase) \cup Range(LowerCase)

\* str::to_lowercase, on ASCII
ToLowercase(str) ==
    [i \in DOMAIN str |->
        IF str[i] \in Range(UpperCase)
        THEN LowerCase[CHOOSE j \in DOMAIN UpperCase : UpperCase[j] = str[i]]
        ELSE str[i]]

\* str.split(|c| !c.is_alphanumeric()): the pieces, empty ones included
RECURSIVE SplitNonAlphanumeric(_, _, _)
SplitNonAlphanumeric(str, current, out) ==
    IF str = <<>> THEN Append(out, current)
    ELSE IF IsAlphanumeric(Head(str))
         THEN SplitNonAlphanumeric(Tail(str), Append(current, Head(str)), out)
         ELSE SplitNonAlphanumeric(Tail(str), <<>>, Append(out, current))

----------------------------------------------------------------------------
\* Validation and DLP (grpc_service.rs, validation.rs, security.rs).

MAX_PATH_LENGTH == 4 * 1024

\* fn validate_path
ValidatePath(path) ==
    /\ ~IsBlank(path)
    /\ Len(path) <= MAX_PATH_LENGTH
    /\ \A i \in DOMAIN path : path[i] \notin ControlChars

\* fn validate_content
ValidateContent(content) == ~IsBlank(content)

\* fn validate_commit_id, on an Option<String>
ValidateCommitId(commit_id) ==
    commit_id = NoCommit \/ \A i \in DOMAIN commit_id[1] : commit_id[1][i] \in HexDigits

\* the built-in pattern AKIA[0-9A-Z]{16}
MatchesAwsKey(content) ==
    \E i \in 1..(Len(content) - 19) :
        /\ SubSeq(content, i, i + 3) = <<"A", "K", "I", "A">>
        /\ \A j \in (i + 4)..(i + 19) : content[j] \in Digits \cup Range(UpperCase)

\* SecurityConfig::scan_content, with the AWS key pattern standing for the
\* built-in patterns
ScanContent(content) == IF MatchesAwsKey(content) THEN "DlpMatch" ELSE "Ok"

----------------------------------------------------------------------------
\* The repository the temporal index reads (temporal.rs).

CommitB == <<"b", "b">>
PathAllowed == <<"a", "/", "t", "e", "s", "t", ".", "r", "s">>
PathSecret == <<"s", "/", "t", "e", "s", "t", ".", "r", "s">>
RepoCommits == {CommitA, CommitB}
\* the paths of the repository, in the order a diff lists them
RepoPaths == <<PathAllowed, <<"d", "o", "c", "s", "/", "x", ".", "m", "d">>, <<"n", "e", "w", "/", "f", "o", "o", "_", "s", "p", "e", "c", ".", "r", "s">>, <<"o", "l", "d", "/", "f", "o", "o", "_", "t", "e", "s", "t", ".", "r", "s">>, PathSecret, <<"s", "r", "c", "/", "f", "o", "o", ".", "r", "s">>>>

\* commit.tree(): the blobs of a commit
RepoTree(commit) ==
    IF commit = CommitA
    THEN {[path |-> PathAllowed, content |-> <<"v", "1">>],
          [path |-> PathSecret, content |-> <<"k", "1">>],
          [path |-> <<"d", "o", "c", "s", "/", "x", ".", "m", "d">>, content |-> <<"m", "1">>],
          [path |-> <<"o", "l", "d", "/", "f", "o", "o", "_", "t", "e", "s", "t", ".", "r", "s">>, content |-> <<"d", "1">>],
          [path |-> <<"s", "r", "c", "/", "f", "o", "o", ".", "r", "s">>, content |-> <<"f", "1">>]}
    ELSE IF commit = CommitB
    THEN {[path |-> PathAllowed, content |-> <<"v", "2">>],
          [path |-> PathSecret, content |-> <<"k", "2">>],
          [path |-> <<"d", "o", "c", "s", "/", "x", ".", "m", "d">>, content |-> <<"m", "2">>],
          [path |-> <<"n", "e", "w", "/", "f", "o", "o", "_", "s", "p", "e", "c", ".", "r", "s">>, content |-> <<"n", "2">>],
          [path |-> <<"s", "r", "c", "/", "f", "o", "o", ".", "r", "s">>, content |-> <<"f", "2">>]}
    ELSE {}

InTree(commit, path) == \E f \in RepoTree(commit) : f.path = path
BlobOf(commit, path) == (CHOOSE f \in RepoTree(commit) : f.path = path).content

\* fn get_symbol_at_commit_blocking and TemporalIndex::get_symbol_at_commit:
\* Err when the commit cannot be found, None when the tree has no such
\* path, otherwise the file symbol with the content of the blob
GetSymbolAtCommit(path, commit_id) ==
    IF commit_id \notin RepoCommits THEN [status |-> "Err", content |-> <<>>]
    ELSE IF ~InTree(commit_id, path) THEN [status |-> "None", content |-> <<>>]
    ELSE [status |-> "Some", content |-> BlobOf(commit_id, path)]

\* repo.diff_tree_to_tree and diff.foreach: (path, status) of the deltas
RECURSIVE ChangedPaths(_, _, _)
ChangedPaths(paths, prev, cur) ==
    IF paths = <<>> THEN <<>>
    ELSE LET p == Head(paths)
             rest == ChangedPaths(Tail(paths), prev, cur)
         IN  IF InTree(prev, p) /\ InTree(cur, p)
             THEN IF BlobOf(prev, p) = BlobOf(cur, p) THEN rest
                  ELSE <<[path |-> p, status |-> "Modified"]>> \o rest
             ELSE IF InTree(cur, p) THEN <<[path |-> p, status |-> "Added"]>> \o rest
             ELSE IF InTree(prev, p) THEN <<[path |-> p, status |-> "Deleted"]>> \o rest
             ELSE rest

\* the loop over test_parts in calculate_relevance, in tenths
RECURSIVE PartsScore(_, _)
PartsScore(parts, file_path) ==
    IF parts = <<>> THEN 0
    ELSE (IF Head(parts) # <<>>
             /\ Contains(ToLowercase(file_path), ToLowercase(Head(parts)))
          THEN 3 ELSE 0) + PartsScore(Tail(parts), file_path)

\* (a score without the cap)
CalculateRelevanceUncapped(file_path, test_name, failure_message) ==
    PartsScore(SplitNonAlphanumeric(test_name, <<>>, <<>>), file_path)
        + (IF Contains(failure_message, file_path) THEN 5 ELSE 0)
        + (IF Contains(file_path, <<"t", "e", "s", "t">>) \/ Contains(file_path, <<"s", "p", "e", "c">>) THEN 2 ELSE 0)

\* fn calculate_relevance, in tenths
CalculateRelevance(file_path, test_name, failure_message) ==
    LET score == PartsScore(SplitNonAlphanumeric(test_name, <<>>, <<>>), file_path)
                 + (IF Contains(failure_message, file_path) THEN 5 ELSE 0)
                 + (IF Contains(file_path, <<"t", "e", "s", "t">>) \/ Contains(file_path, <<"s", "p", "e", "c">>)
                    THEN 2 ELSE 0)
    IN  IF score < 10 THEN score ELSE 10

\* the loop over changed_paths in correlate_ci_failure
RECURSIVE SuspectsOf(_, _, _, _)
SuspectsOf(changed, test_name, failure_message, commit_id) ==
    IF changed = <<>> THEN <<>>
    ELSE LET c == Head(changed)
             score == CalculateRelevance(c.path, test_name, failure_message)
             symbol == GetSymbolAtCommit(c.path, commit_id)
             rest == SuspectsOf(Tail(changed), test_name, failure_message, commit_id)
         IN  IF score > 3 /\ symbol.status = "Some"
             THEN <<[path |-> c.path, content |-> symbol.content,
                     relevance_score |-> score,
                     change_type |-> IF c.status \in {"Added", "Modified", "Deleted", "Renamed"}
                                     THEN c.status ELSE "Modified"]>> \o rest
             ELSE rest

\* suspects.sort_by(b.relevance_score cmp a.relevance_score): stable
RECURSIVE SortByRelevance(_)
SortByRelevance(suspects) ==
    IF suspects = <<>> THEN <<>>
    ELSE LET s == Head(suspects)
             sorted == SortByRelevance(Tail(suspects))
             before == SelectSeq(sorted, LAMBDA x : x.relevance_score > s.relevance_score)
             after == SelectSeq(sorted, LAMBDA x : x.relevance_score <= s.relevance_score)
         IN  before \o <<s>> \o after

\* (a correlation that takes an absent previous commit for an error)
CorrelateNeedsPrevious(test_name, failure_message, commit_id, previous_commit_id) ==
    IF commit_id \notin RepoCommits \/ previous_commit_id = NoCommit
    THEN [ok |-> FALSE, suspects |-> <<>>]
    ELSE [ok |-> TRUE, suspects |-> <<>>]

\* TemporalIndex::correlate_ci_failure
CorrelateCiFailure(test_name, failure_message, commit_id, previous_commit_id) ==
    IF commit_id \notin RepoCommits THEN [ok |-> FALSE, suspects |-> <<>>]
    ELSE IF previous_commit_id = NoCommit THEN [ok |-> TRUE, suspects |-> <<>>]
    ELSE IF previous_commit_id[1] \notin RepoCommits THEN [ok |-> FALSE, suspects |-> <<>>]
    ELSE [ok |-> TRUE,
          suspects |-> SortByRelevance(
              SuspectsOf(ChangedPaths(RepoPaths, previous_commit_id[1], commit_id),
                         test_name, failure_message, commit_id))]

----------------------------------------------------------------------------
\* Request handlers (grpc_service.rs).

IndexOps == {"IndexDocument", "IndexSymbols"}
ContentOps == {"GetSymbolGraph", "GetReferences", "GetDefinitions"}

CommitNotHex == <<"z", "z">>
ReqPaths == {PathAllowed, PathSecret, <<" ">>}
ReqContents == {<<" ">>, <<"f", "n", " ", "f">>, <<"A", "K", "I", "A", "0", "1", "2", "3", "4", "5", "6", "7", "8", "9", "A", "B", "C", "D", "E", "F">>}
ReqCommits == {NoCommit, Some(CommitA), Some(CommitNotHex), Some(<<>>)}
ReqLanguages == {<<" ">>, <<"r", "u", "s", "t">>, <<"c", "o", "b", "o", "l">>}
SupportedLanguages == {<<"r", "u", "s", "t">>, <<"t", "y", "p", "e", "s", "c", "r", "i", "p", "t">>, <<"j", "a", "v", "a", "s", "c", "r", "i", "p", "t">>}
SupportedExtensions == {<<".", "r", "s">>, <<".", "t", "s">>, <<".", "t", "s", "x">>, <<".", "j", "s">>, <<".", "j", "s", "x">>}

Req(op, path, content, commit_id, language, previous_commit_id) ==
    [op |-> op, path |-> path, content |-> content, commit_id |-> commit_id,
     language |-> language, test_name |-> <<"t", "e", "s", "t">>, failure_message |-> <<"b", "o", "o", "m">>,
     previous_commit_id |-> previous_commit_id]

Requests ==
    {Req("IndexDocument", p, c, k, <<>>, NoCommit) :
        p \in ReqPaths, c \in ReqContents, k \in ReqCommits}
    \cup {Req("IndexSymbols", p, c, k, l, NoCommit) :
        p \in ReqPaths, c \in ReqContents, k \in ReqCommits, l \in ReqLanguages}
    \cup {Req(op, p, <<>>, k, <<>>, NoCommit) :
        op \in ContentOps, p \in ReqPaths, k \in ReqCommits}
    \cup {Req("GetSymbolAtCommit", p, <<>>, k, <<>>, NoCommit) :
        p \in ReqPaths, k \in ReqCommits \ {NoCommit}}
    \cup {Req("CorrelateFailure", <<>>, <<>>, k, <<>>, prev) :
        k \in {Some(CommitB), Some(CommitNotHex)}, prev \in ReqCommits}

NoRequest == Req("none", <<>>, <<>>, NoCommit, <<>>, NoCommit)
NoResponse == [status |-> "none", content_of |-> <<>>]

\* symbol_extractor::extract_symbols as index_symbols sees it, on the sample
\* sources: an error for a language without a grammar, otherwise the forest
ExtractSymbols(content, language) ==
    IF language \notin SupportedLanguages THEN [ok |-> FALSE, symbols |-> <<>>]
    ELSE [ok |-> TRUE, symbols |-> IF Contains(content, <<"f", "n">>) THEN Forest(1) ELSE Forest(0)]

\* the validation at the head of each handler
RequestValid(r) ==
    IF r.op = "IndexDocument"
    THEN ValidatePath(r.path) /\ ValidateContent(r.content) /\ ValidateCommitId(r.commit_id)
    ELSE IF r.op = "IndexSymbols"
    THEN /\ ValidatePath(r.path) /\ ValidateContent(r.content)
         /\ ValidateCommitId(r.commit_id) /\ ~IsBlank(r.language)
    ELSE IF r.op \in ContentOps THEN ValidatePath(r.path)
    ELSE IF r.op = "GetSymbolAtCommit"
    THEN ValidatePath(r.path) /\ ValidateCommitId(r.commit_id)
    ELSE ValidateCommitId(r.commit_id) /\ ValidateCommitId(r.previous_commit_id)

\* what follows the validation in each handler
AfterValidate(op) ==
    IF op \in IndexOps \/ op = "GetSymbolAtCommit" THEN "acl"
    ELSE IF op \in ContentOps THEN "get_file_content"
    ELSE "correlate"

\* (a handler that goes from check_path straight to storage)
AfterAclSkipsDlp(op) == IF op \in IndexOps THEN "storage" ELSE "read"

\* what follows a passed check_path in index_document, index_symbols and
\* get_symbol_at_commit
AfterAcl(op) == IF op \in IndexOps THEN "dlp" ELSE "read"

SupportedPath(path) == \E ext \in SupportedExtensions : EndsWith(path, ext)

InitHandler ==
    /\ rq_pc = "idle"
    /\ rq = NoRequest
    /\ rq_trace = <<>>
    /\ rq_resp = NoResponse
    /\ rq_count = 0

Called(name, path) == Append(rq_trace, [call |-> name, path |-> path])

Respond(status, content_of) ==
    /\ rq_pc' = "idle"
    /\ rq_resp' = [status |-> status, content_of |-> content_of]

\* IndexerServiceImpl::new: SecurityConfig::from_env
NewService(entries) ==
    /\ rq_pc = "idle"
    /\ rq_count = 0
    /\ WithRules(entries)

\* a request arrives
Receive(request) ==
    /\ rq_pc = "idle"
    /\ rq_count < MaxRequests
    /\ rq_count' = rq_count + 1
    /\ rq' = request
    /\ rq_pc' = "validate"
    /\ rq_trace' = <<>>
    /\ rq_resp' = NoResponse
    /\ UNCHANGED <<rows, next_uuid, docVars, isVars, outsideHandler>>

\* validate_path, validate_content, validate_commit_id, the language check
Validate ==
    /\ rq_pc = "validate"
    /\ rq_trace' = Called("validate", rq.path)
    /\ IF RequestValid(rq)
       THEN rq_pc' = AfterValidate(rq.op) /\ UNCHANGED rq_resp
       ELSE Respond("InvalidArgument", <<>>)
    /\ UNCHANGED <<rq, rq_count, rows, next_uuid, docVars, isVars, outsideHandler>>

\* security_config.check_path; in get_file_content it is followed by the
\* unimplemented status
CheckAcl ==
    /\ rq_pc = "acl"
    /\ rq_trace' = Called("check_path", rq.path)
    /\ IF CheckPathResult(security_config, rq.path) # "Ok"
       THEN Respond("PermissionDenied", <<>>)
       ELSE IF rq.op \in ContentOps THEN Respond("Unimplemented", <<>>)
       ELSE rq_pc' = AfterAcl(rq.op) /\ UNCHANGED rq_resp
    /\ UNCHANGED <<rq, rq_count, rows, next_uuid, docVars, isVars, outsideHandler>>

\* security_config.scan_content
ScanDlp ==
    /\ rq_pc = "dlp"
    /\ rq_trace' = Called("scan_content", rq.path)
    /\ IF ScanContent(rq.content) # "Ok"
       THEN Respond("PermissionDenied", <<>>)
       ELSE rq_pc' = "storage" /\ UNCHANGED rq_resp
    /\ UNCHANGED <<rq, rq_count, rows, next_uuid, docVars, isVars, outsideHandler>>

\* index_document: storage.index_document and the response
StoreDocument(embedded, stored) ==
    /\ rq_pc = "storage"
    /\ rq.op = "IndexDocument"
    /\ rq_trace' = Called("storage", rq.path)
    /\ IndexDocumentCall(rq.path, rq.content, rq.commit_id, embedded, stored)
    /\ Respond(IF doc_call'.result = "Ok" THEN "Ok" ELSE "Internal", <<>>)
    /\ UNCHANGED <<rq, rq_count, rows, isVars, outsideHandler>>

\* index_symbols: storage.index_symbols is called
StoreSymbols ==
    /\ rq_pc = "storage"
    /\ rq.op = "IndexSymbols"
    /\ rq_trace' = Called("storage", rq.path)
    /\ IndexSymbolsCall(rq.path, ExtractSymbols(rq.content, rq.language), rq.commit_id)
    /\ rq_pc' = "await"
    /\ UNCHANGED <<rq, rq_count, rq_resp, docVars, outsideHandler>>

\* index_symbols: storage.index_symbols has returned
SymbolsStored ==
    /\ rq_pc = "await"
    /\ is_pc = "done"
    /\ Respond(IF is_ret.status = "InvalidInput" THEN "InvalidArgument"
               ELSE IF is_ret.status \in {"EmbeddingError", "DatabaseError"} THEN "Internal"
               ELSE "Ok", <<>>)
    /\ is_pc' = "idle"
    /\ is_args' = <<>>
    /\ is_queue' = <<>>
    /\ is_inflight' = {}
    /\ is_results' = <<>>
    /\ is_count' = 0
    /\ is_ret' = IsReturn("none", 0)
    /\ UNCHANGED <<rq, rq_count, rq_trace, rows, next_uuid, docVars, outsideHandler>>

\* get_file_content, and what get_symbol_graph, get_references and
\* get_definitions do with the content
GetFileContent ==
    /\ rq_pc = "get_file_content"
    /\ IF rq.commit_id # NoCommit
       THEN LET symbol == GetSymbolAtCommit(rq.path, rq.commit_id[1])
            IN  /\ rq_trace' = IF symbol.status = "Some" THEN Called("read", rq.path)
                               ELSE Called("get_symbol_at_commit", rq.path)
                /\ Respond(IF symbol.status = "Err" THEN "Internal"
                           ELSE IF symbol.status = "None" THEN "NotFound"
                           ELSE IF ~SupportedPath(rq.path) THEN "InvalidArgument"
                           ELSE "Ok",
                           IF symbol.status = "Some" /\ SupportedPath(rq.path)
                           THEN <<rq.path>> ELSE <<>>)
       ELSE /\ rq_pc' = "acl"
            /\ UNCHANGED <<rq_trace, rq_resp>>
    /\ UNCHANGED <<rq, rq_count, rows, next_uuid, docVars, isVars, outsideHandler>>

\* get_symbol_at_commit after its checks: temporal.get_symbol_at_commit
ReadAtCommit ==
    /\ rq_pc = "read"
    /\ LET symbol == GetSymbolAtCommit(rq.path, rq.commit_id[1])
       IN  /\ rq_trace' = IF symbol.status = "Some" THEN Called("read", rq.path)
                          ELSE Called("get_symbol_at_commit", rq.path)
           /\ Respond(IF symbol.status = "Err" THEN "Internal" ELSE "Ok",
                      IF symbol.status = "Some" THEN <<rq.path>> ELSE <<>>)
    /\ UNCHANGED <<rq, rq_count, rows, next_uuid, docVars, isVars, outsideHandler>>

\* correlate_failure after its checks: temporal.correlate_ci_failure
Correlate ==
    /\ rq_pc = "correlate"
    /\ LET out == CorrelateCiFailure(rq.test_name, rq.failure_message,
                                     rq.commit_id[1], rq.previous_commit_id)
           read == [i \in DOMAIN out.suspects |-> out.suspects[i].path]
       IN  /\ rq_trace' = Called("correlate_ci_failure", <<>>)
                          \o [i \in DOMAIN read |-> [call |-> "read", path |-> read[i]]]
           /\ Respond(IF out.ok THEN "Ok" ELSE "Internal", read)
    /\ UNCHANGED <<rq, rq_count, rows, next_uuid, docVars, isVars, outsideHandler>>

NextGrpc ==
    \/ NewService(<<<<"a">>>>)
    \/ \E request \in Requests : Receive(request)
    \/ Validate
    \/ CheckAcl
    \/ ScanDlp
    \/ \E embedded, stored \in BOOLEAN : StoreDocument(embedded, stored)
    \/ StoreSymbols
    \/ StartEmbed
    \/ \E s \in is_inflight, ok \in BOOLEAN : FinishEmbed(s, ok)
    \/ CollectDone
    \/ \E stored \in BOOLEAN : InsertNext(stored)
    \/ SymbolsStored
    \/ GetFileContent
    \/ ReadAtCommit
    \/ Correlate

----------------------------------------------------------------------------
\* CI events (temporal.rs).

\* if events.len() > 1000
RetentionWindow == 1000

\* (a drain that drops the newest events)
KeepOldest(events) ==
    IF Len(events) > RetentionWindow THEN SubSeq(events, 1, RetentionWindow) ELSE events

\* events.drain(0..events.len() - 1000) when events.len() > 1000
KeepRecent(events) ==
    IF Len(events) > RetentionWindow
    THEN SubSeq(events, Len(events) - RetentionWindow + 1, Len(events))
    ELSE events

\* the n-th event a caller records: its test is numbered n; its commit is
\* chosen freely at the start of the run and beyond the window
CiEvents(n) ==
    {[test_name |-> <<"t", n>>, commit_id |-> c] :
        c \in IF n <= CiFreeEvents \/ n > RetentionWindow THEN {CommitA, CommitB}
              ELSE {CommitA}}

NoCiReturn == [called |-> FALSE, commit_id |-> <<>>, events |-> <<>>]

InitCi ==
    /\ ci_events = <<>>
    /\ ci_log = <<>>
    /\ ci_ret = NoCiReturn

\* record_ci_event: push and drain under the write lock
RecordCiEvent(event) ==
    /\ Len(ci_log) < RetentionWindow + MaxCiOverflow
    /\ ci_events' = KeepRecent(Append(ci_events, event))
    /\ ci_log' = Append(ci_log, event)
    /\ ci_ret' = NoCiReturn
    /\ UNCHANGED outsideCi

HasCommit(event, commit_id) == event.commit_id = commit_id

\* get_ci_events_for_commit: filter and collect under the read lock
GetCiEventsForCommit(commit_id) ==
    /\ ci_ret' = [called |-> TRUE, commit_id |-> commit_id,
                  events |-> SelectSeq(ci_events, LAMBDA e : HasCommit(e, commit_id))]
    /\ UNCHANGED <<ci_events, ci_log, outsideCi>>

NextCi ==
    \/ \E event \in CiEvents(Len(ci_log) + 1) : RecordCiEvent(event)
    \/ \E c \in {CommitA, CommitB} : GetCiEventsForCommit(c)

----------------------------------------------------------------------------
\* Calls of correlate_ci_failure and calculate_relevance (temporal.rs).

CommitUnknown == <<"c", "c">>

NoCorrelateCall ==
    [called |-> FALSE, test_name |-> <<>>, failure_message |-> <<>>, commit_id |-> <<>>,
     previous_commit_id |-> NoCommit, result |-> [ok |-> FALSE, suspects |-> <<>>]]

NoRelevanceCall ==
    [called |-> FALSE, file_path |-> <<>>, test_name |-> <<>>, failure_message |-> <<>>,
     separator |-> "", token |-> <<>>, score |-> 0, extended |-> 0]

InitCorrelate ==
    /\ cor_call = NoCorrelateCall
    /\ rel_call = NoRelevanceCall

\* correlate_ci_failure called on the temporal index
CorrelateCall(test_name, failure_message, commit_id, previous_commit_id) ==
    /\ ~cor_call.called /\ ~rel_call.called
    /\ cor_call' = [called |-> TRUE, test_name |-> test_name,
                    failure_message |-> failure_message, commit_id |-> commit_id,
                    previous_commit_id |-> previous_commit_id,
                    result |-> CorrelateCiFailure(test_name, failure_message, commit_id,
                                                  previous_commit_id)]
    /\ rel_call' = NoRelevanceCall
    /\ UNCHANGED outsideCorrelate

\* calculate_relevance applied to a test name and to the test name extended
\* by a separator and a token
RelevanceCall(file_path, test_name, failure_message, separator, token) ==
    /\ ~cor_call.called /\ ~rel_call.called
    /\ rel_call' = [called |-> TRUE, file_path |-> file_path, test_name |-> test_name,
                    failure_message |-> failure_message, separator |-> separator,
                    token |-> token,
                    score |-> CalculateRelevance(file_path, test_name, failure_message),
                    extended |-> CalculateRelevance(file_path,
                                     test_name \o <<separator>> \o token, failure_message)]
    /\ cor_call' = NoCorrelateCall
    /\ UNCHANGED outsideCorrelate

NextCorrelate ==
    \/ \E t \in {<<>>, <<"t", "e", "s", "t">>, <<"t", "e", "s", "t", "_", "f", "o", "o">>, <<"F", "o", "o">>, <<"t", "e", "s", "t", "_", "f", "o", "o", "_", "t", "e", "s", "t">>},
          f \in {<<"b", "o", "o", "m">>, <<"p", "a", "n", "i", "c", " ", "i", "n", " ", "s", "r", "c", "/", "f", "o", "o", ".", "r", "s">>},
          c \in {CommitA, CommitB, CommitUnknown, CommitNotHex},
          p \in {NoCommit, Some(CommitA), Some(CommitB), Some(CommitUnknown)} :
            CorrelateCall(t, f, c, p)
    \/ \E path \in Range(RepoPaths),
          t \in {<<>>, <<"t", "e", "s", "t">>, <<"t", "e", "s", "t", "_", "f", "o", "o">>, <<"F", "o", "o">>, <<"t", "e", "s", "t", "_", "f", "o", "o", "_", "t", "e", "s", "t">>},
          f \in {<<"b", "o", "o", "m">>, <<"p", "a", "n", "i", "c", " ", "i", "n", " ", "s", "r", "c", "/", "f", "o", "o", ".", "r", "s">>},
          sep \in {"_", " "},
          token \in {<<"f", "o", "o">>, <<"T", "E", "S", "T">>, <<"r", "s">>, <<"z", "z">>} :
            RelevanceCall(path, t, f, sep, token)

----------------------------------------------------------------------------
\* TemporalIndex::index_commit_range (temporal.rs): the commit walk in the
\* blocking worker, batch by batch, and the caller that awaits it.

MaxBatchSize == 3
MaxFaults == 2

\* The repository walked: H1 is the root, H4 a merge of H3 and the side
\* commit HX; between H2 and H3 the file n is moved to m, in H2 the file l
\* becomes a symbolic link.
H1 == <<"c", "1">>
H2 == <<"c", "2">>
H3 == <<"c", "3">>
H4 == <<"c", "4">>
HX == <<"c", "x">>

WalkCommits == {H1, H2, H3, H4, HX}

Parents(commit) ==
    IF commit = H2 THEN <<H1>>
    ELSE IF commit = H3 THEN <<H2>>
    ELSE IF commit = H4 THEN <<H3, HX>>
    ELSE <<>>

WalkPaths == << <<"a">>, <<"l">>, <<"m">>, <<"n">> >>

NoEntry == [kind |-> "none", blob |-> 0]

Blob(n) == [kind |-> "blob", blob |-> n]

Link(n) == [kind |-> "link", blob |-> n]

EmptyTree == [p \in Range(WalkPaths) |-> NoEntry]

WalkTree(commit) ==
    IF commit = H1 THEN [EmptyTree EXCEPT ![<<"a">>] = Blob(1), ![<<"l">>] = Blob(1)]
    ELSE IF commit = H2
    THEN [EmptyTree EXCEPT ![<<"a">>] = Blob(2), ![<<"l">>] = Link(1), ![<<"n">>] = Blob(1)]
    ELSE IF commit = H3
    THEN [EmptyTree EXCEPT ![<<"a">>] = Blob(2), ![<<"l">>] = Link(1), ![<<"m">>] = Blob(1)]
    ELSE IF commit = H4
    THEN [EmptyTree EXCEPT ![<<"a">>] = Blob(3), ![<<"m">>] = Blob(1)]
    ELSE [EmptyTree EXCEPT ![<<"a">>] = Blob(9), ![<<"l">>] = Blob(1), ![<<"n">>] = Blob(5)]

\* commits older than max_age_days
OldCommits == {H1}

\* git2::Delta of one path between two trees (no rename detection)
DeltaStatus(old, new) ==
    IF old = new THEN "Unmodified"
    ELSE IF old.kind = "none" THEN "Added"
    ELSE IF new.kind = "none" THEN "Deleted"
    ELSE IF old.kind # new.kind THEN "Typechange"
    ELSE "Modified"

RECURSIVE DiffTreeToTree(_, _, _)
\* repo.diff_tree_to_tree: the deltas in path order
DiffTreeToTree(paths, old_tree, new_tree) ==
    IF paths = <<>> THEN <<>>
    ELSE LET p == Head(paths)
             status == DeltaStatus(old_tree[p], new_tree[p])
             rest == DiffTreeToTree(Tail(paths), old_tree, new_tree)
         IN  IF status = "Unmodified" THEN rest
             ELSE <<[status |-> status, old_path |-> p, new_path |-> p]>> \o rest

\* (a mapping that records every other status as Modified)
ChangeTypeOfAny(status) ==
    IF status \in {"Added", "Modified", "Deleted", "Renamed"} THEN status ELSE "Modified"

\* the match on delta.status() in process_commit; "skip" for `return true`
ChangeTypeOf(status) ==
    IF status \in {"Added", "Modified", "Deleted", "Renamed"} THEN status ELSE "skip"

RECURSIVE RecordDeltas(_, _, _)
\* the diff.foreach callback of process_commit, delta by delta
RecordDeltas(history, commit, deltas) ==
    IF deltas = <<>> THEN history
    ELSE LET delta == Head(deltas)
             change_type == ChangeTypeOf(delta.status)
             version == [commit_id |-> commit, change_type |-> change_type,
                         previous_path |-> IF change_type = "Renamed"
                                           THEN <<delta.old_path>> ELSE <<>>]
             next == IF change_type = "skip" THEN history
                     ELSE [history EXCEPT ![delta.new_path] = Append(@, version)]
         IN  RecordDeltas(next, commit, Tail(deltas))

\* fn process_commit on a commit whose tree and parent can be read
ProcessCommit(history, commit) ==
    IF Len(Parents(commit)) > 0
    THEN RecordDeltas(history, commit,
                      DiffTreeToTree(WalkPaths, WalkTree(Parents(commit)[1]), WalkTree(commit)))
    ELSE history

\* (a batch count that counts failed commits too)
CountEvery(count, ok) == count + 1

\* process_commit_batch: `continue` on Err, count += 1 otherwise
CountProcessed(count, ok) == IF ok THEN count + 1 ELSE count

RECURSIVE FirstParentChain(_)
\* revwalk with simplify_first_parent from a tip
FirstParentChain(commit) ==
    IF Parents(commit) = <<>> THEN <<commit>>
    ELSE <<commit>> \o FirstParentChain(Parents(commit)[1])

RECURSIVE Ancestors(_)
\* the commits revwalk.hide removes: the commit and all its ancestors
Ancestors(commit) ==
    {commit} \cup UNION {Ancestors(Parents(commit)[i]) : i \in DOMAIN Parents(commit)}

Hidden(start_commit) ==
    IF start_commit = NoCommit THEN {} ELSE Ancestors(start_commit[1])

Tip(end_commit) == IF end_commit = NoCommit THEN H4 ELSE end_commit[1]

IsHidden(start_commit, commit) == commit \in Hidden(start_commit)

\* the commits the configured revwalk yields, newest first
RevWalk(start_commit, end_commit) ==
    LET chain == FirstParentChain(Tip(end_commit))
    IN  SelectSeq(chain, LAMBDA c : ~IsHidden(start_commit, c))

FaultMaps ==
    {f \in [{H2, H3, H4} -> {"none", "tree", "time"}] :
        Cardinality({c \in DOMAIN f : f[c] # "none"}) <= MaxFaults}

FaultOf(cfg, commit) ==
    IF commit \in DOMAIN cfg.faults THEN cfg.faults[commit] ELSE "none"

NoWalkConfig ==
    [start_commit |-> NoCommit, end_commit |-> NoCommit, batch_size |-> 0,
     max_age_days |-> FALSE, faults |-> [c \in {H2, H3, H4} |-> "none"]]

WalkReturn(status, count) == [status |-> status, count |-> count]

InitWalk ==
    /\ symbol_history = [p \in Range(WalkPaths) |-> <<>>]
    /\ icr_pc = "idle"
    /\ icr_cfg = NoWalkConfig
    /\ icr_revwalk = <<>>
    /\ icr_batch = <<>>
    /\ icr_pos = 0
    /\ icr_count = 0
    /\ icr_indexed = 0
    /\ icr_batch_no = 0
    /\ icr_dropped = FALSE
    /\ icr_drop_batch = 0
    /\ icr_attempts = <<>>
    /\ icr_ret = WalkReturn("none", 0)

\* what the caller gets: nothing once it has dropped the future
Returned(status, count) ==
    IF icr_dropped THEN WalkReturn("dropped", 0) ELSE WalkReturn(status, count)

\* index_commit_range up to the start of the revwalk loop
IndexCommitRange(start_commit, end_commit, batch_size, max_age_days, faults) ==
    /\ icr_pc = "idle"
    /\ icr_cfg' = [start_commit |-> start_commit, end_commit |-> end_commit,
                   batch_size |-> batch_size, max_age_days |-> max_age_days,
                   faults |-> faults]
    /\ IF Tip(end_commit) \notin WalkCommits
       THEN /\ icr_pc' = "done"
            /\ icr_ret' = WalkReturn("Err", 0)
            /\ UNCHANGED icr_revwalk
       ELSE /\ icr_pc' = "walk"
            /\ icr_revwalk' = RevWalk(start_commit, end_commit)
            /\ UNCHANGED icr_ret
    /\ UNCHANGED <<symbol_history, icr_batch, icr_pos, icr_count, icr_indexed,
                   icr_batch_no, icr_dropped, icr_drop_batch, icr_attempts, outsideWalk>>

\* one turn of `for oid in revwalk`, or the code after the loop
WalkNext ==
    /\ icr_pc = "walk"
    /\ IF icr_revwalk = <<>>
       THEN IF icr_batch # <<>>
            THEN /\ icr_pc' = "batch"
                 /\ icr_batch_no' = icr_batch_no + 1
                 /\ icr_pos' = 1
                 /\ icr_count' = 0
                 /\ UNCHANGED <<icr_revwalk, icr_batch, icr_ret>>
            ELSE /\ icr_pc' = "done"
                 /\ icr_ret' = Returned("Ok", icr_indexed)
                 /\ UNCHANGED <<icr_revwalk, icr_batch, icr_batch_no, icr_pos, icr_count>>
       ELSE LET commit == Head(icr_revwalk)
            IN  IF icr_cfg.max_age_days /\ FaultOf(icr_cfg, commit) = "time"
                THEN /\ icr_pc' = "done"
                     /\ icr_ret' = Returned("Err", 0)
                     /\ UNCHANGED <<icr_revwalk, icr_batch, icr_batch_no, icr_pos,
                                    icr_count>>
                ELSE IF icr_cfg.max_age_days /\ commit \in OldCommits
                THEN /\ icr_revwalk' = Tail(icr_revwalk)
                     /\ UNCHANGED <<icr_pc, icr_batch, icr_batch_no, icr_pos, icr_count,
                                    icr_ret>>
                ELSE /\ icr_revwalk' = Tail(icr_revwalk)
                     /\ icr_batch' = Append(icr_batch, commit)
                     /\ IF Len(icr_batch) + 1 >= icr_cfg.batch_size
                        THEN /\ icr_pc' = "batch"
                             /\ icr_batch_no' = icr_batch_no + 1
                             /\ icr_pos' = 1
                             /\ icr_count' = 0
                        ELSE UNCHANGED <<icr_pc, icr_batch_no, icr_pos, icr_count>>
                     /\ UNCHANGED icr_ret
    /\ UNCHANGED <<symbol_history, icr_cfg, icr_indexed, icr_dropped, icr_drop_batch,
                   icr_attempts, outsideWalk>>

\* one turn of the loop of process_commit_batch; after the last commit of
\* the batch, indexed_count += count and batch.clear()
ProcessNext ==
    /\ icr_pc = "batch"
    /\ LET commit == icr_batch[icr_pos]
           ok == FaultOf(icr_cfg, commit) = "none"
           count == CountProcessed(icr_count, ok)
       IN  /\ symbol_history' = IF ok THEN ProcessCommit(symbol_history, commit)
                                 ELSE symbol_history
           /\ icr_attempts' = Append(icr_attempts, [commit |-> commit, ok |-> ok,
                                                    batch |-> icr_batch_no])
           /\ IF icr_pos = Len(icr_batch)
              THEN /\ icr_indexed' = icr_indexed + count
                   /\ icr_batch' = <<>>
                   /\ icr_pos' = 0
                   /\ icr_count' = 0
                   /\ icr_pc' = "walk"
              ELSE /\ icr_pos' = icr_pos + 1
                   /\ icr_count' = count
                   /\ UNCHANGED <<icr_indexed, icr_batch, icr_pc>>
    /\ UNCHANGED <<icr_cfg, icr_revwalk, icr_batch_no, icr_dropped, icr_drop_batch,
                   icr_ret, outsideWalk>>

\* the caller drops the future of index_commit_range while the worker runs
DropFuture ==
    /\ icr_pc \in {"walk", "batch"}
    /\ ~icr_dropped
    /\ icr_dropped' = TRUE
    /\ icr_drop_batch' = icr_batch_no
    /\ UNCHANGED <<symbol_history, icr_pc, icr_cfg, icr_revwalk, icr_batch, icr_pos,
                   icr_count, icr_indexed, icr_batch_no, icr_attempts, icr_ret,
                   outsideWalk>>

NextWalk ==
    \/ \E start_commit \in {NoCommit, Some(H1)},
          end_commit \in {NoCommit, Some(H3), Some(CommitNotHex)},
          batch_size \in 0..MaxBatchSize,
          max_age_days \in BOOLEAN,
          faults \in FaultMaps :
            IndexCommitRange(start_commit, end_commit, batch_size, max_age_days, faults)
    \/ WalkNext
    \/ ProcessNext
    \/ DropFuture

----------------------------------------------------------------------------
\* EmbeddingManager::embed and its two providers (embeddings.rs).  A vector
\* is a sequence of numbers; 1 stands for any number a provider produced.

EMBEDDING_DIM == 384

ZeroVector == [i \in 1..EMBEDDING_DIM |-> 0]

EmbedOk(vector, provider_calls) ==
    [ok |-> TRUE, vector |-> vector, provider_calls |-> provider_calls]

EmbedErr(provider_calls) ==
    [ok |-> FALSE, vector |-> <<>>, provider_calls |-> provider_calls]

\* response.status().is_success()
IsSuccess(status) == status >= 200 /\ status <= 299

\* a JSON array of n elements, those at the positions in `other` not numbers
ArrayOf(n, other) == [i \in 1..n |-> IF i \in other THEN "null" ELSE "num"]

\* response bodies: not JSON, an object without `embedding`, `embedding`
\* not an array, and arrays around the dimension with and without an
\* element that is not a number
Bodies ==
    {[kind |-> k, elems |-> <<>>] : k \in {"not_json", "no_field", "not_array", "array"}}
    \cup UNION {{[kind |-> "array", elems |-> ArrayOf(n, other)] :
                    other \in {{}, {1}, {n}, {1, n}}} :
                 n \in {EMBEDDING_DIM - 1, EMBEDDING_DIM, EMBEDDING_DIM + 1}}

IsNumber(elem) == elem = "num"

\* .iter().filter_map(|v| v.as_f64().map(|f| f as f32)).collect()
FilterNumbers(elems) ==
    LET kept == SelectSeq(elems, IsNumber)
    IN  [i \in DOMAIN kept |-> 1]

\* OrchestratorProvider::embed, given how the server answers: sent (the
\* request got a response), its status and its body
OrchestratorEmbed(text, response) ==
    IF ~response.sent THEN EmbedErr(1)
    ELSE IF ~IsSuccess(response.status) THEN EmbedErr(1)
    ELSE IF response.body.kind = "not_json" THEN EmbedErr(1)
    ELSE IF response.body.kind # "array" THEN EmbedErr(1)
    ELSE LET embedding == FilterNumbers(response.body.elems)
         IN  IF Len(embedding) # EMBEDDING_DIM THEN EmbedErr(1)
             ELSE EmbedOk(embedding, 1)

\* LocalBertProvider::embed: tokenise, run the model, mean-pool, normalise;
\* `fails` when the tokenizer, the model or the blocking task fails
LocalEmbed(text, fails) ==
    IF fails THEN EmbedErr(1)
    ELSE EmbedOk([i \in 1..EMBEDDING_DIM |-> 1], 1)

\* EmbeddingManager::embed
ManagerEmbed(provider, text, response, fails) ==
    IF provider = "Local" THEN LocalEmbed(text, fails)
    ELSE OrchestratorEmbed(text, response)

NoResponseSent == [sent |-> FALSE, status |-> 0, body |-> [kind |-> "not_json", elems |-> <<>>]]

NoEmbedCall ==
    [called |-> FALSE, provider |-> "", text |-> <<>>, response |-> NoResponseSent,
     fails |-> FALSE, result |-> EmbedErr(0)]

InitEmbed == emb_call = NoEmbedCall

\* embed called on the manager by index_document, index_symbols, search or
\* store_symbol
Embed(provider, text, response, fails) ==
    /\ ~emb_call.called
    /\ emb_call' = [called |-> TRUE, provider |-> provider, text |-> text,
                    response |-> response, fails |-> fails,
                    result |-> ManagerEmbed(provider, text, response, fails)]
    /\ UNCHANGED outsideEmbed

NextEmbed ==
    \/ \E text \in {<<>>, <<" ">>, <<"TAB", "LF">>, <<"f", "n">>}, fails \in BOOLEAN :
            Embed("Local", text, NoResponseSent, fails)
    \/ \E text \in {<<>>, <<" ">>, <<"TAB", "LF">>, <<"f", "n">>},
          status \in {200, 204, 299, 300, 404, 500},
          body \in Bodies :
            Embed("Orchestrator", text, [sent |-> TRUE, status |-> status, body |-> body],
                  FALSE)
    \/ \E text \in {<<>>, <<"f", "n">>} :
            Embed("Orchestrator", text, NoResponseSent, FALSE)

----------------------------------------------------------------------------
\* The search handlers of IndexerServiceImpl (grpc_service.rs).

MaxRequestedTopK == 103

MAX_QUERY_LENGTH == 8 * 1024

\* fn validate_query
ValidateQuery(query) == ~IsBlank(query) /\ Len(query) <= MAX_QUERY_LENGTH

\* (a clamp that lets a request of 101 through)
ClampTopKLate(top_k) ==
    IF top_k <= 0 THEN 5
    ELSE IF top_k > 101 THEN 100
    ELSE top_k

\* the top_k computed by search_documents and search_symbols
ClampTopK(top_k) ==
    IF top_k <= 0 THEN 5
    ELSE IF top_k > 100 THEN 100
    ELSE top_k

\* search_documents / search_symbols up to the storage call; storage_top_k
\* is 0 when storage is not called
SearchHandler(config, r) ==
    IF ~ValidateQuery(r.query)
    THEN [status |-> "InvalidArgument", storage_top_k |-> 0]
    ELSE IF r.path_prefix # <<>> /\ ~ValidatePath(r.path_prefix[1])
    THEN [status |-> "InvalidArgument", storage_top_k |-> 0]
    ELSE IF r.path_prefix # <<>> /\ CheckPathResult(config, r.path_prefix[1]) # "Ok"
    THEN [status |-> "PermissionDenied", storage_top_k |-> 0]
    ELSE IF ~ValidateCommitId(r.commit_id)
    THEN [status |-> "InvalidArgument", storage_top_k |-> 0]
    ELSE [status |-> "Ok", storage_top_k |-> ClampTopK(r.top_k)]

\* the service's SecurityConfig: the allowlist "a"
SearchAcl ==
    NormalizeAllowedPrefixes(<< <<"a">> >>, [allow_all |-> FALSE, allowed_prefixes |-> <<>>])

NoSearchCall ==
    [called |-> FALSE, op |-> "", query |-> <<>>, path_prefix |-> <<>>,
     commit_id |-> NoCommit, top_k |-> 0, status |-> "none", storage_top_k |-> 0]

\* a SearchDocuments or SearchSymbols request handled
Search(op, query, path_prefix, commit_id, top_k) ==
    /\ ~search_call.called /\ ~val_call.called
    /\ LET r == [op |-> op, query |-> query, path_prefix |-> path_prefix,
                 commit_id |-> commit_id, top_k |-> top_k]
           res == SearchHandler(SearchAcl, r)
       IN  search_call' = [called |-> TRUE, op |-> op, query |-> query,
                           path_prefix |-> path_prefix, commit_id |-> commit_id,
                           top_k |-> top_k, status |-> res.status,
                           storage_top_k |-> res.storage_top_k]
    /\ UNCHANGED <<val_call, outsideBoundary>>

\* a query of n characters
QueryOfLen(n) == [i \in 1..n |-> "q"]

NextSearch ==
    \/ \E op \in {"SearchDocuments", "SearchSymbols"},
          query \in {<<" ">>, <<"f", "n">>},
          path_prefix \in {<<>>, <<PathAllowed>>, <<PathSecret>>},
          commit_id \in {NoCommit, Some(CommitNotHex)},
          top_k \in (-3..MaxRequestedTopK) \cup {-2147483647 - 1, 2147483647} :
            Search(op, query, path_prefix, commit_id, top_k)
    \/ \E op \in {"SearchDocuments", "SearchSymbols"},
          limit \in {4 * 1024, MAX_QUERY_LENGTH},
          d \in {-1, 0, 1},
          commit_id \in {NoCommit, Some(CommitA)} :
            Search(op, QueryOfLen(limit + d), <<>>, commit_id, 10)

----------------------------------------------------------------------------
\* Path validation at the three places a request path enters the service:
\* validate_path (grpc_service.rs), document_path (validation.rs) and
\* add_semantic_document (main.rs).

\* MAX_PATH_LENGTH of main.rs
MAX_PATH_LENGTH_HTTP == 1024

\* str::trim: the string without its leading and trailing whitespace
Trim(str) ==
    LET lead == Cardinality({i \in DOMAIN str : \A j \in 1..i : str[j] \in Whitespace})
        trail == Cardinality({i \in DOMAIN str :
                                \A j \in i..Len(str) : str[j] \in Whitespace})
    IN  IF lead = Len(str) THEN <<>> ELSE SubSeq(str, lead + 1, Len(str) - trail)

\* fn validate_path_component
ValidatePathComponent(value) ==
    /\ Len(value) <= MAX_PATH_LENGTH
    /\ \A i \in DOMAIN value : value[i] \notin ControlChars

\* fn document_path: ensure_not_blank, trim, validate_path_component
DocumentPath(raw) == ~IsBlank(raw) /\ ValidatePathComponent(Trim(raw))

\* add_semantic_document, the checks on request.path
AddSemanticDocumentPath(raw) ==
    /\ Trim(raw) # <<>>
    /\ Len(Trim(raw)) <= MAX_PATH_LENGTH_HTTP

PathValidationAt(site, path) ==
    IF site = "validate_path" THEN ValidatePath(path)
    ELSE IF site = "document_path" THEN DocumentPath(path)
    ELSE AddSemanticDocumentPath(path)

\* a path of n characters, all "a" but the one at pos
PathOfLen(n, ch, pos) == [i \in 1..n |-> IF i = pos THEN ch ELSE "a"]

NoValidation == [called |-> FALSE, site |-> "", path |-> <<>>, accepted |-> FALSE]

InitBoundary ==
    /\ search_call = NoSearchCall
    /\ val_call = NoValidation

\* a request path checked at one of the three sites
ValidateAt(site, path) ==
    /\ ~search_call.called /\ ~val_call.called
    /\ val_call' = [called |-> TRUE, site |-> site, path |-> path,
                    accepted |-> PathValidationAt(site, path)]
    /\ UNCHANGED <<search_call, outsideBoundary>>

NextValidate ==
    \/ \E site \in {"validate_path", "document_path", "add_semantic_document"},
          path \in {<<>>, <<" ">>, <<"TAB", " ">>, <<"a">>} :
            ValidateAt(site, path)
    \/ \E site \in {"validate_path", "document_path", "add_semantic_document"},
          limit \in {MAX_PATH_LENGTH_HTTP, MAX_PATH_LENGTH},
          d \in {-1, 0, 1},
          ch \in {"a", "NUL", "CR", "LF", " "},
          at_end \in BOOLEAN :
            ValidateAt(site, PathOfLen(limit + d, ch, IF at_end THEN limit + d ELSE 2))

----------------------------------------------------------------------------
\* Conversions between SymbolKind and its string form (symbol_registry.rs).

NoKindCall == [called |-> FALSE, site |-> "", input |-> "", result |-> ""]

InitKinds == kind_call = NoKindCall

\* kind.to_string() parsed back with SymbolKind::from_str
KindRoundTrip(k) ==
    /\ ~kind_call.called
    /\ kind_call' = [called |-> TRUE, site |-> "round_trip", input |-> k,
                     result |-> KindFromStr(KindToString(k))]
    /\ UNCHANGED outsideKinds

\* SymbolKind::from_str on a string
ParseKind(s) ==
    /\ ~kind_call.called
    /\ kind_call' = [called |-> TRUE, site |-> "from_str", input |-> s,
                     result |-> KindFromStr(s)]
    /\ UNCHANGED outsideKinds

\* load_from_storage on a row of the symbols table whose kind column is s:
\* the kind of the Symbol it builds
HydrateKind(s) ==
    /\ ~kind_call.called
    /\ kind_call' = [called |-> TRUE, site |-> "load_from_storage", input |-> s,
                     result |-> SymbolOfRow([id |-> 1, path |-> <<"a", ".", "r", "s">>,
                                             name |-> "f", kind |-> s, content |-> "v0",
                                             commit_id |-> NoCommit, start_line |-> 0,
                                             metadata |-> NoDoc]).key.kind]
    /\ UNCHANGED outsideKinds

\* kind strings: the string forms, the variant names, and both with a
\* character appended
KindStrings ==
    {base \o suffix :
        base \in {KindTable[i][1] : i \in DOMAIN KindTable}
                 \cup {KindTable[i][2] : i \in DOMAIN KindTable} \cup {"", "fn"},
        suffix \in {"", "s", " "}}

NextKinds ==
    \/ \E k \in SymbolKind : KindRoundTrip(k)
    \/ \E s \in KindStrings : ParseKind(s)
    \/ \E s \in KindStrings : HydrateKind(s)

----------------------------------------------------------------------------
\* Symbol extractor (symbol_extractor.rs).  A syntax-tree node carries its
\* kind, the text of its `name` and `type` fields (absent: <<>>), its own
\* text (comments only), its children in source order and the position among
\* them of the child in the `body` field (0: no body).

NoField == <<>>

Node(kind, name, type, text, body, children) ==
    [kind |-> kind, name |-> name, type |-> type, text |-> text,
     body |-> body, children |-> children]

Leaf(kind) == Node(kind, NoField, NoField, <<>>, 0, <<>>)

CommentNode(kind, text) == Node(kind, NoField, NoField, text, 0, <<>>)

Wrapper(kind, children) == Node(kind, NoField, NoField, <<>>, 0, children)

\* a declaration with a name field and a body holding items
Decl(kind, name, items) ==
    Node(kind, <<name>>, NoField, <<>>, 1, <<Wrapper("statement_block", items)>>)

\* impl Type { items }
ImplItem(type, items) ==
    Node("impl_item", NoField, <<type>>, <<>>, 1, <<Wrapper("declaration_list", items)>>)

\* a declaration without a body: struct S; a field, a declarator
Bodiless(kind, name) == Node(kind, <<name>>, NoField, <<>>, 0, <<>>)

CommentKinds == {"comment", "line_comment", "block_comment"}

\* the node kinds of the model whose name contains "whitespace"
WhitespaceKinds == {"whitespace"}

\* text.starts_with("/**") || text.starts_with("///")
IsDocText(text) ==
    /\ Len(text) >= 3
    /\ \/ SubSeq(text, 1, 3) = <<"/", "*", "*">>
       \/ SubSeq(text, 1, 3) = <<"/", "/", "/">>

RECURSIVE JoinLines(_)
\* comments.join("\n")
JoinLines(texts) ==
    IF Len(texts) = 0 THEN <<>>
    ELSE IF Len(texts) = 1 THEN texts[1]
    ELSE texts[1] \o <<"LF">> \o JoinLines(Tail(texts))

Reverse(s) == [i \in 1..Len(s) |-> s[Len(s) + 1 - i]]

RECURSIVE WalkPrevSiblings(_, _)
\* the while loop of extract_doc_comment from sibling i backwards: the doc
\* comments pushed, nearest first
WalkPrevSiblings(prev, i) ==
    IF i = 0 THEN <<>>
    ELSE IF prev[i].kind \in CommentKinds
         THEN (IF IsDocText(prev[i].text) THEN <<prev[i].text>> ELSE <<>>)
                  \o WalkPrevSiblings(prev, i - 1)
         ELSE IF prev[i].kind \notin WhitespaceKinds THEN <<>>
         ELSE WalkPrevSiblings(prev, i - 1)

\* (extract_doc_comment without comments.reverse())
ExtractDocCommentNearestFirst(prev) ==
    LET comments == WalkPrevSiblings(prev, Len(prev))
    IN  IF comments = <<>> THEN <<>> ELSE <<JoinLines(comments)>>

\* extract_doc_comment of a node whose previous siblings are prev
ExtractDocComment(prev) ==
    LET comments == WalkPrevSiblings(prev, Len(prev))
    IN  IF comments = <<>> THEN <<>> ELSE <<JoinLines(Reverse(comments))>>

ExtractedSymbol(name, kind, doc_comment, children) ==
    [name |-> name, kind |-> kind, doc_comment |-> doc_comment, children |-> children]

\* extract_interface, extract_enum, extract_method, extract_struct,
\* extract_trait, extract_module, extract_class_member: a symbol without
\* children when the node has a name
ExtractNamed(node, prev, kind) ==
    IF node.name = NoField THEN <<>>
    ELSE <<ExtractedSymbol(node.name[1], kind, ExtractDocComment(prev), <<>>)>>

ExtractImpl(node, prev) ==
    IF node.type = NoField THEN <<>>
    ELSE <<ExtractedSymbol("impl " \o node.type[1], "Impl", ExtractDocComment(prev), <<>>)>>

\* the doc comment is taken from the previous siblings of the parent
ExtractVariableDeclarator(node, parentPrev) ==
    IF node.name = NoField THEN <<>>
    ELSE <<ExtractedSymbol(node.name[1], "Constant", ExtractDocComment(parentPrev), <<>>)>>

FunctionKinds == {"function_declaration", "function", "function_item"}
ClassKinds == {"class_declaration", "class"}

RECURSIVE ExtractSymbol(_, _, _), BodyChildren(_, _, _, _)

\* extract_function and extract_class: the symbol and, from the direct
\* children of the body, those extract_symbol recognises (extract_class
\* also takes field_definition children)
ExtractWithBody(node, prev, kind, fields) ==
    IF node.name = NoField THEN <<>>
    ELSE <<ExtractedSymbol(node.name[1], kind, ExtractDocComment(prev),
              IF node.body = 0 THEN <<>>
              ELSE BodyChildren(node.children[node.body].children, 1,
                                SubSeq(node.children, 1, node.body - 1), fields))>>

BodyChildren(items, j, bodyPrev, fields) ==
    IF j > Len(items) THEN <<>>
    ELSE LET child == items[j]
             before == SubSeq(items, 1, j - 1)
             symbol == ExtractSymbol(child, before, bodyPrev)
         IN  (IF symbol # <<>> THEN symbol
              ELSE IF fields /\ child.kind = "field_definition"
                   THEN ExtractNamed(child, before, "Property")
                   ELSE <<>>)
             \o BodyChildren(items, j + 1, bodyPrev, fields)

\* extract_symbol: Some(symbol) as <<symbol>>, None as <<>>
ExtractSymbol(node, prev, parentPrev) ==
    CASE node.kind \in FunctionKinds -> ExtractWithBody(node, prev, "Function", FALSE)
      [] node.kind \in ClassKinds -> ExtractWithBody(node, prev, "Class", TRUE)
      [] node.kind = "interface_declaration" -> ExtractNamed(node, prev, "Interface")
      [] node.kind \in {"enum_declaration", "enum_item"} -> ExtractNamed(node, prev, "Enum")
      [] node.kind = "method_definition" -> ExtractNamed(node, prev, "Method")
      [] node.kind \in {"const_declaration", "lexical_declaration"} -> <<>>
      [] node.kind = "variable_declarator" -> ExtractVariableDeclarator(node, parentPrev)
      [] node.kind = "struct_item" -> ExtractNamed(node, prev, "Struct")
      [] node.kind = "trait_item" -> ExtractNamed(node, prev, "Trait")
      [] node.kind = "impl_item" -> ExtractImpl(node, prev)
      [] node.kind = "mod_item" -> ExtractNamed(node, prev, "Module")
      [] OTHER -> <<>>

RECURSIVE Visit(_, _, _), VisitChildren(_, _, _)

\* visit: the symbols pushed, in order
Visit(node, prev, parentPrev) ==
    LET symbol == ExtractSymbol(node, prev, parentPrev)
    IN  IF symbol # <<>> THEN symbol ELSE VisitChildren(node, 1, prev)

VisitChildren(node, j, prev) ==
    IF j > Len(node.children) THEN <<>>
    ELSE Visit(node.children[j], SubSeq(node.children, 1, j - 1), prev)
             \o VisitChildren(node, j + 1, prev)

\* extract_symbols once the source is parsed: visit from the root
VisitRoot(root) == Visit(root, <<>>, <<>>)

\* --- the syntax trees the model draws from

DocA == CommentNode("comment", <<"/", "*", "*", "A">>)
DocB == CommentNode("line_comment", <<"/", "/", "/", "B">>)
PlainComment == CommentNode("comment", <<"/", "/", "p">>)
Statement == Leaf("expression_statement")
WhitespaceNode == Leaf("whitespace")

\* the node kinds with a body that extract_symbol recognises
BodyDeclKinds ==
    {"function_declaration", "class_declaration", "interface_declaration",
     "enum_declaration", "method_definition", "function_item", "struct_item",
     "enum_item", "trait_item", "impl_item", "mod_item"}

DeclOf(kind, name, items) ==
    IF kind = "impl_item" THEN ImplItem(name, items)
    ELSE IF kind = "field_definition" THEN Bodiless(kind, name)
    ELSE Decl(kind, name, items)

\* the declarations the grammars allow directly in the body of each kind
NestedKinds(kind) ==
    CASE kind = "function_declaration" -> {"function_declaration", "class_declaration"}
      [] kind = "class_declaration" -> {"method_definition", "field_definition"}
      [] kind = "method_definition" -> {"function_declaration"}
      [] kind = "function_item" -> {"function_item", "struct_item"}
      [] kind \in {"impl_item", "trait_item"} -> {"function_item"}
      [] kind = "mod_item" -> {"function_item", "struct_item", "mod_item"}
      [] OTHER -> {}

\* the kinds whose body is a block of statements
BlockKinds == {"function_declaration", "method_definition", "function_item"}

\* a declaration one block deeper than the body itself: if (..) { d }
Guarded(d) == Wrapper("if_statement", <<Wrapper("statement_block", <<d>>)>>)

\* the declarations of a kind with at most one declaration in their body
Innermost(kind) ==
    { DeclOf(kind, "g", <<>>) }
    \cup { DeclOf(kind, "g", <<DeclOf(k, "h", <<>>)>>) : k \in NestedKinds(kind) }

NestedDecls(kind) == UNION { Innermost(k) : k \in NestedKinds(kind) }

BodyItems(kind) ==
    {<<>>, <<Statement>>}
    \cup { <<d>> : d \in NestedDecls(kind) }
    \cup { <<a, DeclOf(k, "h", <<>>)>> :
             a \in {Statement} \cup NestedDecls(kind), k \in NestedKinds(kind) }
    \cup { <<Guarded(d)>> : d \in IF kind \in BlockKinds THEN NestedDecls(kind) ELSE {} }

NestingTrees ==
    UNION { { Wrapper("program", <<DeclOf(k, "f", items)>>) : items \in BodyItems(k) } :
              k \in BodyDeclKinds }

\* the siblings that may precede a declaration
Preceding == {DocA, DocB, PlainComment, Statement, WhitespaceNode}

MaxPreceding == 3

PrecedingRuns ==
    UNION { [1..n -> Preceding] : n \in 0..MaxPreceding }

Documented ==
    { Decl("function_declaration", "f", <<>>),
      Bodiless("struct_item", "f"),
      Wrapper("lexical_declaration", <<Bodiless("variable_declarator", "f")>>) }

DocTrees ==
    { Wrapper("program", run \o <<d>>) : run \in PrecedingRuns, d \in Documented }
    \cup { Wrapper("program", <<Decl("class_declaration", "f", run \o <<d>>)>>) :
             run \in PrecedingRuns, d \in {Decl("method_definition", "g", <<>>)} }

NoExtractCall == [called |-> FALSE, tree |-> Leaf("program"), result |-> <<>>]

\* --- the operations that run the extractor on a file

LangRust == <<"r", "u", "s", "t">>
LangTypescript == <<"t", "y", "p", "e", "s", "c", "r", "i", "p", "t">>
LangJavascript == <<"j", "a", "v", "a", "s", "c", "r", "i", "p", "t">>
LangUnknown == <<"u", "n", "k", "n", "o", "w", "n">>

\* what parse_tree hands back: a tree, or an AstError
ParseFailed == [ok |-> FALSE, tree |-> Leaf("program")]
Parsed(tree) == [ok |-> TRUE, tree |-> tree]

\* extract_symbols: the error of parse_tree is passed on by `?`
ExtractSymbolsOf(parse) ==
    IF parse.ok THEN [ok |-> TRUE, symbols |-> VisitRoot(parse.tree)]
    ELSE [ok |-> FALSE, symbols |-> <<>>]

\* the language get_symbol_at_commit derives from the extension
LanguageOfPath(path) ==
    IF EndsWith(path, <<".", "r", "s">>) THEN LangRust
    ELSE IF EndsWith(path, <<".", "t", "s">>) \/ EndsWith(path, <<".", "t", "s", "x">>)
         THEN LangTypescript
    ELSE IF EndsWith(path, <<".", "j", "s">>) \/ EndsWith(path, <<".", "j", "s", "x">>)
         THEN LangJavascript
    ELSE LangUnknown

\* get_symbol_at_commit and get_symbol_at_commit_blocking on a blob that
\* exists: extract_symbols(..).unwrap_or_default() for a known language,
\* Vec::new() otherwise; the names go into the metadata of the file symbol
ExtractAtCommit(path, parse) ==
    LET language == LanguageOfPath(path)
        extracted == IF language # LangUnknown
                     THEN (IF ExtractSymbolsOf(parse).ok
                           THEN ExtractSymbolsOf(parse).symbols ELSE <<>>)
                     ELSE <<>>
    IN  [status |-> "Ok", language |-> language,
         names |-> [i \in DOMAIN extracted |-> extracted[i].name]]

\* Storage::index_symbols up to flatten_symbols:
\* extract_symbols(..).map_err(InvalidInput)?
ExtractForIndex(language, parse) ==
    LET extracted == ExtractSymbolsOf(parse)
    IN  IF ~extracted.ok THEN [status |-> "Err", language |-> language, names |-> <<>>]
        ELSE [status |-> "Ok", language |-> language,
              names |-> [i \in DOMAIN extracted.symbols |-> extracted.symbols[i].name]]

NoRun == [called |-> FALSE, op |-> "none", parsed |-> FALSE,
          ret |-> [status |-> "none", language |-> <<>>, names |-> <<>>]]

\* the parse results the model draws from for a language: an error for a
\* language without a grammar, an error or a tree otherwise
ParseResults(language) ==
    {ParseFailed} \cup
    (IF language \in SupportedLanguages
     THEN {Parsed(t) : t \in {Wrapper("program", <<>>),
                              Wrapper("program", <<Decl("function_item", "f", <<>>)>>),
                              Wrapper("program", <<Decl("function_item", "f", <<>>),
                                                   Bodiless("struct_item", "g")>>)}}
     ELSE {})

RunPaths ==
    { <<"a">> \o ext : ext \in SupportedExtensions \cup {<<".", "m", "d">>, <<>>} }

InitExtract ==
    /\ ext_call = NoExtractCall
    /\ run_call = NoRun

\* Storage::index_symbols on a file of the language
IndexSymbolsRun(language, parse) ==
    /\ ~run_call.called /\ ~ext_call.called
    /\ run_call' = [called |-> TRUE, op |-> "index_symbols", parsed |-> parse.ok,
                    ret |-> ExtractForIndex(language, parse)]
    /\ UNCHANGED <<ext_call, outsideExtract>>

\* TemporalIndex::get_symbol_at_commit on a path the commit holds
GetSymbolAtCommitRun(path, parse) ==
    /\ ~run_call.called /\ ~ext_call.called
    /\ run_call' = [called |-> TRUE, op |-> "get_symbol_at_commit", parsed |-> parse.ok,
                    ret |-> ExtractAtCommit(path, parse)]
    /\ UNCHANGED <<ext_call, outsideExtract>>

\* correlate_ci_failure on a changed path that scores above 0.3: the file
\* symbol comes from get_symbol_at_commit_blocking, and the call returns Ok
\* with or without it
CorrelateRun(path, parse) ==
    /\ ~run_call.called /\ ~ext_call.called
    /\ run_call' = [called |-> TRUE, op |-> "correlate_ci_failure", parsed |-> parse.ok,
                    ret |-> ExtractAtCommit(path, parse)]
    /\ UNCHANGED <<ext_call, outsideExtract>>

\* extract_symbols on a source that parses to the tree
Extract(tree) ==
    /\ ~ext_call.called /\ ~run_call.called
    /\ ext_call' = [called |-> TRUE, tree |-> tree, result |-> VisitRoot(tree)]
    /\ UNCHANGED <<run_call, outsideExtract>>

NextExtract ==
    \/ \E tree \in NestingTrees : Extract(tree)
    \/ \E tree \in DocTrees : Extract(tree)
    \/ \E l \in SupportedLanguages \cup {<<"c", "o", "b", "o", "l">>} :
          \E parse \in ParseResults(l) : IndexSymbolsRun(l, parse)
    \/ \E p \in RunPaths :
          \E parse \in ParseResults(LanguageOfPath(p)) : GetSymbolAtCommitRun(p, parse)
    \/ \E p \in RunPaths :
          \E parse \in ParseResults(LanguageOfPath(p)) : CorrelateRun(p, parse)

----------------------------------------------------------------------------
\* Vector search in the storage (storage.rs search_documents, search_symbols).
\* Embeddings are two-dimensional integer vectors of norm 5, distances and
\* scores are in hundredths.

MaxSearchTopK == 3

EmbeddingNorm == 5

Dot(a, b) == a[1] * b[1] + a[2] * b[2]

\* pgvector's <=>: cosine distance, 1 - cos, in hundredths
CosineDistance(a, b) == 100 - (100 * Dot(a, b)) \div (EmbeddingNorm * EmbeddingNorm)

\* the embedding of the query text
QueryEmbedding(query) == IF query = "near" THEN <<5, 0>> ELSE <<0, 5>>

SearchQueries == {"near", "far"}

SearchRow(id, path, commit_id, embedding) ==
    [id |-> id, path |-> path, commit_id |-> commit_id, embedding |-> embedding]

\* the rows of the documents table (one row for a path) and of the symbols
\* table (several rows for a path)
TableRows(table) ==
    IF table = "documents"
    THEN { SearchRow(1, <<"a", "_", "/", "x">>, Some(CommitA), <<4, 3>>),
           SearchRow(2, <<"a", "b", "/", "x">>, Some(CommitA), <<5, 0>>),
           SearchRow(3, <<"a", "_", "/", "y">>, Some(CommitB), <<3, 4>>),
           SearchRow(4, <<"b", "/", "x">>, NoCommit, <<4, 3>>) }
    ELSE { SearchRow(1, <<"a", "_", "/", "x">>, Some(CommitA), <<3, 4>>),
           SearchRow(2, <<"a", "_", "/", "x">>, Some(CommitA), <<4, 3>>),
           SearchRow(3, <<"a", "%", "/", "x">>, Some(CommitB), <<5, 0>>),
           SearchRow(4, <<"b", "/", "x">>, Some(CommitA), <<0, 5>>),
           SearchRow(5, <<"b", "/", "x">>, NoCommit, <<4, 3>>) }

SearchPrefixes ==
    {NoCommit, Some(<<"a">>), Some(<<"a", "_", "/">>), Some(<<"a", "%", "/">>),
     Some(<<"b", "/">>), Some(<<"c">>)}

RECURSIVE Like(_, _)
\* SQL: text LIKE pattern, with % for any string, _ for any character and
\* the backslash as escape
Like(text, pattern) ==
    IF pattern = <<>> THEN text = <<>>
    ELSE IF Head(pattern) = "%"
         THEN \E k \in 0..Len(text) : Like(SubSeq(text, k + 1, Len(text)), Tail(pattern))
    ELSE IF Head(pattern) = "_"
         THEN text # <<>> /\ Like(Tail(text), Tail(pattern))
    ELSE IF Head(pattern) = "\\" /\ Len(pattern) > 1
         THEN text # <<>> /\ Head(text) = pattern[2]
                /\ Like(Tail(text), Tail(Tail(pattern)))
    ELSE text # <<>> /\ Head(text) = Head(pattern) /\ Like(Tail(text), Tail(pattern))

\* WHERE 1=1 [AND path LIKE prefix || '%'] [AND commit_id = commit]
Where(row, path_prefix, commit_id) ==
    /\ path_prefix # NoCommit => Like(row.path, path_prefix[1] \o <<"%">>)
    /\ commit_id # NoCommit => row.commit_id = commit_id

\* ORDER BY embedding_vector <=> $1 ASC LIMIT n: the row sequences the
\* database may return (rows at the same distance come in any order)
OrderByLimit(matching, vector, limit) ==
    LET n == IF limit < Cardinality(matching) THEN limit ELSE Cardinality(matching)
        dist(r) == CosineDistance(r.embedding, vector)
    IN  { s \in [1..n -> matching] :
            /\ \A i, j \in 1..n : i < j => s[i] # s[j] /\ dist(s[i]) <= dist(s[j])
            /\ \A r \in matching :
                  (\A i \in 1..n : s[i] # r) => \A i \in 1..n : dist(s[i]) <= dist(r) }

\* the (row, score) pairs built from the rows: the embedding is not returned
SearchResults(fetched, vector) ==
    [i \in DOMAIN fetched |->
        [id |-> fetched[i].id, path |-> fetched[i].path, commit_id |-> fetched[i].commit_id,
         score |-> 100 - CosineDistance(fetched[i].embedding, vector)]]

NoFindCall ==
    [called |-> FALSE, table |-> "none", query |-> "none", top_k |-> 0,
     path_prefix |-> NoCommit, commit_id |-> NoCommit, status |-> "none", results |-> <<>>]

InitFind == find_call = NoFindCall

\* search_documents (table documents) and search_symbols (table symbols):
\* embed the query, run the SELECT, build the results
StorageSearch(table, query, top_k, path_prefix, commit_id, embed_ok) ==
    /\ ~find_call.called
    /\ IF ~embed_ok
       THEN find_call' = [called |-> TRUE, table |-> table, query |-> query,
                          top_k |-> top_k, path_prefix |-> path_prefix,
                          commit_id |-> commit_id, status |-> "Embedding",
                          results |-> <<>>]
       ELSE \E fetched \in OrderByLimit({r \in TableRows(table) : Where(r, path_prefix, commit_id)},
                                     QueryEmbedding(query), top_k) :
              find_call' = [called |-> TRUE, table |-> table, query |-> query,
                            top_k |-> top_k, path_prefix |-> path_prefix,
                            commit_id |-> commit_id, status |-> "Ok",
                            results |-> SearchResults(fetched, QueryEmbedding(query))]
    /\ UNCHANGED outsideFind

NextFind ==
    \E table \in {"documents", "symbols"}, query \in SearchQueries,
       top_k \in 0..MaxSearchTopK, path_prefix \in SearchPrefixes,
       commit_id \in {NoCommit, Some(CommitA), Some(CommitB)}, embed_ok \in BOOLEAN :
        StorageSearch(table, query, top_k, path_prefix, commit_id, embed_ok)

----------------------------------------------------------------------------
\* In-memory semantic store (semantic.rs).

DEFAULT_MAX_DOCUMENTS == 10000

MaxSemanticAdds == 5

SemPaths == {"src/lib.rs", "src/main.rs"}

NoLimit == <<>>

\* the max_documents the stores of the model are built with
SemConfigs == {NoLimit, <<0>>, <<1>>, <<2>>, <<3>>}

EmptyMap == [x \in {} |-> <<>>]

\* map with key k set to value v
Insert(map, k, v) == [x \in DOMAIN map \cup {k} |-> IF x = k THEN v ELSE map[x]]

\* map without key k
Remove(map, k) == [x \in DOMAIN map \ {k} |-> map[x]]

\* SemanticIndex::remove_document on an index [order, records, by_path]
RemoveDocument(index, id) ==
    IF id \notin DOMAIN index.records THEN index
    ELSE LET record == index.records[id]
             records == Remove(index.records, id)
         IN  IF record.path \notin DOMAIN index.by_path
             THEN [index EXCEPT !.records = records]
             ELSE LET entries == SelectSeq(index.by_path[record.path], LAMBDA e : e # id)
                  IN  [index EXCEPT
                         !.records = records,
                         !.by_path = IF entries = <<>> THEN Remove(@, record.path)
                                     ELSE Insert(@, record.path, entries)]

RECURSIVE EvictNewest(_, _)
\* (an eviction that pops the back of the queue)
EvictNewest(index, max_documents) ==
    IF max_documents = NoLimit \/ Len(index.order) <= max_documents[1] THEN index
    ELSE EvictNewest(
             RemoveDocument([index EXCEPT !.order = SubSeq(@, 1, Len(@) - 1)],
                            index.order[Len(index.order)]),
             max_documents)

RECURSIVE EvictIfNeeded(_, _)
\* SemanticIndex::evict_if_needed: while order.len() > max_documents, pop
\* the front and remove that document
EvictIfNeeded(index, max_documents) ==
    IF max_documents = NoLimit \/ Len(index.order) <= max_documents[1] THEN index
    ELSE EvictIfNeeded(
             RemoveDocument([index EXCEPT !.order = Tail(@)], Head(index.order)),
             max_documents)

NoHistory == [called |-> FALSE, path |-> "", entries |-> <<>>]

InitSemantic ==
    /\ sem_config = <<DEFAULT_MAX_DOCUMENTS>>
    /\ sem_order = <<>>
    /\ sem_records = EmptyMap
    /\ sem_by_path = EmptyMap
    /\ sem_next = 0
    /\ sem_added = <<>>
    /\ sem_hist = NoHistory

\* SemanticStore::from_config: a new, empty store
FromConfig(max_documents) ==
    /\ sem_config' = max_documents
    /\ sem_order' = <<>>
    /\ sem_records' = EmptyMap
    /\ sem_by_path' = EmptyMap
    /\ sem_added' = <<>>
    /\ sem_hist' = NoHistory
    /\ UNCHANGED <<sem_next, outsideSemantic>>

\* SemanticStore::add_document, under the write lock
AddDocument(path, commit_id) ==
    /\ sem_next < MaxSemanticAdds
    /\ LET document_id == sem_next + 1
           record == [id |-> document_id, path |-> path, commit_id |-> commit_id]
           pushed == [order |-> Append(sem_order, document_id),
                      by_path |-> Insert(sem_by_path, path,
                                     Append(IF path \in DOMAIN sem_by_path
                                            THEN sem_by_path[path] ELSE <<>>, document_id)),
                      records |-> Insert(sem_records, document_id, record)]
           index == EvictIfNeeded(pushed, sem_config)
       IN  /\ sem_next' = document_id
           /\ sem_order' = index.order
           /\ sem_records' = index.records
           /\ sem_by_path' = index.by_path
           /\ sem_added' = Append(sem_added, document_id)
    /\ UNCHANGED <<sem_config, sem_hist, outsideSemantic>>

\* SemanticStore::history_for_path, under the read lock
HistoryForPath(path) ==
    /\ sem_hist' =
         [called |-> TRUE, path |-> path,
          entries |->
             LET ids == IF path \in DOMAIN sem_by_path THEN sem_by_path[path] ELSE <<>>
                 live == SelectSeq(ids, LAMBDA id : id \in DOMAIN sem_records)
             IN  [i \in DOMAIN live |->
                     [document_id |-> sem_records[live[i]].id,
                      commit_id |-> sem_records[live[i]].commit_id]]]
    /\ UNCHANGED <<sem_config, sem_order, sem_records, sem_by_path, sem_next, sem_added,
                   outsideSemantic>>

NextSemantic ==
    \/ \E c \in SemConfigs : FromConfig(c)
    \/ \E p \in SemPaths, c \in {NoCommit, Some(CommitA)} : AddDocument(p, c)
    \/ \E p \in SemPaths : HistoryForPath(p)

----------------------------------------------------------------------------
\* Audit log (audit.rs).  A serde_json Value is a record of its kind, its
\* string (String), its items (Array) and its key/value fields (Object).

JValue(kind, str, items, fields) ==
    [kind |-> kind, str |-> str, items |-> items, fields |-> fields]

JNull == JValue("Null", "", <<>>, <<>>)
JString(s) == JValue("String", s, <<>>, <<>>)
JBool == JValue("Bool", "", <<>>, <<>>)
JArray(items) == JValue("Array", "", items, <<>>)
JObject(fields) == JValue("Object", "", <<>>, fields)
Field(key, value) == [key |-> key, value |-> value]

\* SECRET_KEY_PATTERNS, as the strings the (?i) patterns match in lower case
SecretKeyPatterns ==
    { <<"t", "o", "k", "e", "n">>, <<"s", "e", "c", "r", "e", "t">>, <<"p", "a", "s", "s", "w", "o", "r", "d">>,
      <<"c", "r", "e", "d", "e", "n", "t", "i", "a", "l">>, <<"a", "u", "t", "h", "o", "r", "i", "z", "a", "t", "i", "o", "n">>,
      <<"a", "p", "i", "k", "e", "y">>, <<"a", "p", "i", "_", "k", "e", "y">>, <<"a", "p", "i", "-", "k", "e", "y">>,
      <<"c", "l", "i", "e", "n", "t", "s", "e", "c", "r", "e", "t">>, <<"c", "l", "i", "e", "n", "t", "_", "s", "e", "c", "r", "e", "t">>, <<"c", "l", "i", "e", "n", "t", "-", "s", "e", "c", "r", "e", "t">> }

\* should_mask(Some(key)); should_mask(None) is FALSE
ShouldMask(key) == \E p \in SecretKeyPatterns : Contains(ToLowercase(key), p)

RECURSIVE SanitizeValue(_, _), SanitizeItems(_), SanitizeMap(_)

\* sanitize_value(value, key): Some(v) as <<v>>, None as <<>>; masked tells
\* whether a key was given and should_mask holds for it
SanitizeValue(value, masked) ==
    CASE value.kind = "Null" -> <<>>
      [] value.kind = "String" ->
            IF masked THEN <<JString("[redacted]")>>
            ELSE IF value.str = "" THEN <<>>
            ELSE <<value>>
      [] value.kind = "Array" ->
            LET sanitized == SanitizeItems(value.items)
            IN  IF sanitized = <<>> THEN <<>> ELSE <<JArray(sanitized)>>
      [] value.kind = "Object" ->
            LET sanitized_map == SanitizeMap(value.fields)
            IN  IF sanitized_map = <<>> THEN <<>> ELSE <<JObject(sanitized_map)>>
      [] OTHER -> <<value>>

\* items.into_iter().filter_map(|item| sanitize_value(item, None))
SanitizeItems(items) ==
    IF items = <<>> THEN <<>>
    ELSE SanitizeValue(Head(items), FALSE) \o SanitizeItems(Tail(items))

\* sanitize_map
SanitizeMap(fields) ==
    IF fields = <<>> THEN <<>>
    ELSE LET cleaned == SanitizeValue(Head(fields).value, ShouldMask(Head(fields).key))
         IN  (IF cleaned = <<>> THEN <<>> ELSE <<Field(Head(fields).key, cleaned[1])>>)
                 \o SanitizeMap(Tail(fields))

KeyCapability == <<"c", "a", "p", "a", "b", "i", "l", "i", "t", "y">>

\* extract_details: the details without the capability, sanitised
ExtractDetails(details) ==
    IF details = <<>> THEN <<>>
    ELSE IF details[1].kind = "Object"
         THEN LET sanitized ==
                     SanitizeMap(SelectSeq(details[1].fields,
                                           LAMBDA f : f.key # KeyCapability))
              IN  IF sanitized = <<>> THEN <<>> ELSE <<JObject(sanitized)>>
         ELSE SanitizeValue(details[1], FALSE)

\* --- the details the model draws from

AuditKeys ==
    { <<"t", "o", "k", "e", "n">>, <<"A", "P", "I", "-", "K", "e", "y">>, <<"a", "l", "l", "o", "w", "e", "d">>, <<"n", "e", "s", "t", "e", "d">>, KeyCapability }

AuditLeaves == {JString("abc"), JString(""), JNull, JBool}

AuditValues ==
    AuditLeaves
    \cup { JArray(<<v>>) : v \in {JString("abc"), JString("")} }
    \cup { JObject(<<Field(key, JString("abc"))>>) :
             key \in { <<"v", "a", "l", "u", "e">>, <<"r", "e", "f", "r", "e", "s", "h", "_", "t", "o", "k", "e", "n">> } }

AuditDetails ==
    {<<>>, <<JArray(<<JString("abc")>>)>>}
    \cup { <<JObject(<<Field(key, v)>>)>> : key \in AuditKeys, v \in AuditValues }
    \cup { <<JObject(<<Field(k1, v1), Field(k2, v2)>>)>> :
             k1 \in {<<"a", "l", "l", "o", "w", "e", "d">>, <<"n", "e", "s", "t", "e", "d">>}, v1 \in AuditValues,
             k2 \in {<<"t", "o", "k", "e", "n">>}, v2 \in AuditValues }

NoAuditCall == [called |-> FALSE, details |-> <<>>, redacted_details |-> <<>>]

InitAudit == audit_call = NoAuditCall

\* log_audit: the details of the emitted event
LogAudit(details) ==
    /\ ~audit_call.called
    /\ audit_call' = [called |-> TRUE, details |-> details,
                      redacted_details |-> ExtractDetails(details)]
    /\ UNCHANGED outsideAudit

NextAudit == \E details \in AuditDetails : LogAudit(details)

----------------------------------------------------------------------------
\* A TemporalIndex that serves one index_commit_range call after another: the
\* history map lives in the engine, everything else is local to a call.

MaxWalkCalls == 2

InitCalls == icr_calls = 0

\* the call returns to its caller and the engine is ready for the next one
IndexCommitRangeReturn ==
    /\ icr_pc = "done"
    /\ icr_calls < MaxWalkCalls
    /\ icr_calls' = icr_calls + 1
    /\ icr_pc' = "idle"
    /\ icr_cfg' = NoWalkConfig
    /\ icr_revwalk' = <<>>
    /\ icr_batch' = <<>>
    /\ icr_pos' = 0
    /\ icr_count' = 0
    /\ icr_indexed' = 0
    /\ icr_batch_no' = 0
    /\ icr_dropped' = FALSE
    /\ icr_drop_batch' = 0
    /\ icr_attempts' = <<>>
    /\ icr_ret' = WalkReturn("none", 0)
    /\ UNCHANGED <<symbol_history, outsideCalls>>

\* calls over overlapping ranges of a repository whose commits can all be read
NextRewalk ==
    \/ \E start_commit \in {NoCommit, Some(H1), Some(H2)},
          end_commit \in {NoCommit, Some(H3)},
          batch_size \in 1..MaxBatchSize :
            IndexCommitRange(start_commit, end_commit, batch_size, FALSE,
                             NoWalkConfig.faults)
    \/ WalkNext
    \/ ProcessNext
    \/ IndexCommitRangeReturn

----------------------------------------------------------------------------
\* SearchDocuments and SearchSymbols from the request to the response
\* (grpc_service.rs): the handler's checks, the storage search, the results
\* mapped into the response.

\* the service's SecurityConfig: the allowlist "a_"
ServedAcl ==
    NormalizeAllowedPrefixes(<< <<"a", "_">> >>, [allow_all |-> FALSE, allowed_prefixes |-> <<>>])

ServedPrefixes == {NoCommit, Some(<<"a", "_", "/">>), Some(<<"a", "_">>), Some(<<"b", "/">>)}

ServedQueries == {<<" ">>, <<"f", "n">>, <<"n", "e", "a", "r">>}

\* EmbeddingManager::embed of the request's query
EmbedQuery(query) == QueryEmbedding(IF query = <<"n", "e", "a", "r">> THEN "near" ELSE "far")

NoServed ==
    [called |-> FALSE, op |-> "", path_prefix |-> NoCommit, commit_id |-> NoCommit,
     top_k |-> 0, status |-> "none", results |-> <<>>]

InitServe == served = NoServed

\* search_documents / search_symbols: validation and the ACL check of the
\* prefix, then storage.search_*, whose rows become the results as they are
SearchRpc(op, query, path_prefix, commit_id, top_k, embed_ok) ==
    LET r == [op |-> op, query |-> query, path_prefix |-> path_prefix,
              commit_id |-> commit_id, top_k |-> top_k]
        res == SearchHandler(ServedAcl, r)
        table == IF op = "SearchDocuments" THEN "documents" ELSE "symbols"
        response(status, results) ==
            [called |-> TRUE, op |-> op, path_prefix |-> path_prefix,
             commit_id |-> commit_id, top_k |-> top_k, status |-> status,
             results |-> results]
    IN  /\ ~served.called
        /\ IF res.status # "Ok"
           THEN served' = response(res.status, <<>>)
           ELSE IF ~embed_ok
           THEN served' = response("Internal", <<>>)
           ELSE \E fetched \in OrderByLimit({row \in TableRows(table) :
                                                  Where(row, path_prefix, commit_id)},
                                             EmbedQuery(query), res.storage_top_k) :
                    served' = response("Ok", SearchResults(fetched, EmbedQuery(query)))
        /\ UNCHANGED outsideServe

NextServe ==
    \E op \in {"SearchDocuments", "SearchSymbols"}, query \in ServedQueries,
       path_prefix \in ServedPrefixes,
       commit_id \in {NoCommit, Some(CommitA), Some(CommitB)},
       top_k \in 0..MaxSearchTopK, embed_ok \in BOOLEAN :
        SearchRpc(op, query, path_prefix, commit_id, top_k, embed_ok)

----------------------------------------------------------------------------

Init ==
    /\ InitRegistry
    /\ clock = 0
    /\ InitDocuments
    /\ InitIndexSymbols
    /\ InitAcl
    /\ InitHandler
    /\ InitCi
    /\ InitCorrelate
    /\ InitWalk
    /\ InitEmbed
    /\ InitBoundary
    /\ InitKinds
    /\ InitExtract
    /\ InitFind
    /\ InitSemantic
    /\ InitAudit
    /\ InitCalls
    /\ InitServe

SpecRegistry == Init /\ [][NextRegistry]_vars

\* the registry with a fair scheduler: tokio's RwLock queues its waiters, so
\* a task waiting for a lock that keeps being released gets it, and a
\* store_symbol that was called returns
RegistryFairness ==
    \A t \in Tasks :
        /\ SF_vars(GocLockIndex(t))
        /\ SF_vars(GocInsert(t))
        /\ WF_vars(\E ok \in BOOLEAN : UpdateStore(t, ok))

\* the registry operations with one choice of the arguments that do not
\* bear on the locks
NextRegistryLocks ==
    \/ \E t \in Tasks, k \in Keys : GocBegin(t, k)
    \/ \E t \in Tasks : GocLockIndex(t)
    \/ \E t \in Tasks : GocInsert(t)
    \/ \E t \in Tasks, id \in Ids, in \in UpdateInputs : UpdateBegin(t, id, in)
    \/ \E t \in Tasks, ok \in BOOLEAN : UpdateStore(t, ok)
    \/ \E id \in Ids : MarkDeleted(id, CommitA)
    \/ AddChild(1, 2)

SpecRegistryFair == Init /\ [][NextRegistryLocks]_vars /\ RegistryFairness

SpecHydrate == Init /\ [][NextHydrate]_vars

SpecDocuments == Init /\ [][NextDocuments]_vars

SpecIndexSymbols == Init /\ [][NextIndexSymbols]_vars

SpecAcl == Init /\ [][NextAcl]_vars

SpecGrpc == Init /\ [][NextGrpc]_vars

SpecCi == Init /\ [][NextCi]_vars

SpecCorrelate == Init /\ [][NextCorrelate]_vars

SpecWalk == Init /\ [][NextWalk]_vars

SpecRewalk == Init /\ [][NextRewalk]_vars

SpecServe == Init /\ [][NextServe]_vars

SpecEmbed == Init /\ [][NextEmbed]_vars

SpecSearch == Init /\ [][NextSearch]_vars

SpecValidate == Init /\ [][NextValidate]_vars

SpecKinds == Init /\ [][NextKinds]_vars

SpecExtract == Init /\ [][NextExtract]_vars

SpecFind == Init /\ [][NextFind]_vars

SpecSemantic == Init /\ [][NextSemantic]_vars

SpecAudit == Init /\ [][NextAudit]_vars

----------------------------------------------------------------------------
\* Properties of the symbol registry.

PresentIds == {i \in Ids : symbols[i] # NoSymbol}

\* C1: whatever the interleaving of concurrent get_or_create_symbol calls on
\* one registry, all calls for a key return the same id, and the map holds
\* exactly one Symbol for a key that has been returned.
C1_GetOrCreateAgrees ==
    /\ \A e1, e2 \in goc_log : e1.key = e2.key => e1.id = e2.id
    /\ \A e \in goc_log :
          {i \in PresentIds : symbols[i].key = e.key} = {e.id}

\* two calls for one key raced: both minted an id, one inserted, the other
\* found the key in the second lookup and dropped its id
C1_Witness ==
    /\ \A t \in Tasks : rpc[t] = "idle"
    /\ next_uuid = 2
    /\ Cardinality(PresentIds) = 1
    /\ \E k \in Keys :
          {e.inserted : e \in {x \in goc_log : x.key = k}} = {TRUE, FALSE}

\* C2: the key -> id index and the id -> Symbol map form a bijection: every
\* Symbol is indexed under its own key with its own id, and no two Symbols
\* share a key.
C2_Bijection ==
    /\ \A i \in PresentIds : symbol_index[symbols[i].key] = i
    /\ \A i, j \in PresentIds : symbols[i].key = symbols[j].key => i = j

----------------------------------------------------------------------------
\* Properties of the documents table.

RowsOfPath(table, path) == {r \in table : r.path = path}

\* C4: the documents table holds at most one row per path; an index_document
\* call that succeeds on a path that already has a row keeps that row's id
\* and created_at, replaces its content, embedding and commit_id by the
\* call's, and sets an updated_at that is not earlier than the one before.
C4_OneRowPerPath ==
    [][ /\ \A p \in Paths : Cardinality(RowsOfPath(documents', p)) <= 1
        /\ \A r \in documents :
              \E r2 \in documents' :
                  /\ r2.path = r.path /\ r2.id = r.id
                  /\ r2.created_at = r.created_at
                  /\ r2.updated_at >= r.updated_at
        /\ (doc_call' # doc_call /\ doc_call'.result = "Ok") =>
              \E r2 \in documents' :
                  /\ r2.path = doc_call'.path
                  /\ r2.content = doc_call'.content
                  /\ r2.embedding = EmbeddingOf(doc_call'.content)
                  /\ r2.commit_id = doc_call'.commit_id
                  /\ r2.updated_at = clock ]_vars

\* a path was indexed again, later, with another content and commit: its row
\* kept the id of the first call and holds what the last call passed
C4_Witness ==
    \E r \in documents :
        /\ doc_call.n >= 2 /\ doc_call.result = "Ok"
        /\ doc_call.path = r.path /\ doc_call.id # r.id
        /\ r.content = <<"B">> /\ r.commit_id = Some(CommitA)
        /\ r.updated_at > r.created_at

----------------------------------------------------------------------------
\* Properties of Storage::index_symbols.

\* C5: during one index_symbols call at most K = 4 embed operations are in
\* flight, whatever the number of symbols and the order of completion.
C5_AtMostKInFlight == Cardinality(is_inflight) <= 4

\* the buffer is full again after an embedding has completed and the last
\* symbol of the stream has taken the freed place
C5_Witness ==
    /\ Cardinality(is_inflight) = 4
    /\ is_queue = <<>>
    /\ is_results # <<>>

\* an embedding of the call has failed
EmbeddingFailed == \E i \in DOMAIN is_results : ~is_results[i].ok

\* C6: once an embedding of the call has failed, no further embedding is
\* started and no further symbol row is inserted.
C6_AbortOnFirstFailure ==
    [][EmbeddingFailed => (is_inflight' \subseteq is_inflight /\ rows' = rows)]_vars

----------------------------------------------------------------------------
\* Properties of check_path.

\* the segments of a path that name something or step up
RECURSIVE Meaningful(_)
Meaningful(segs) ==
    IF segs = <<>> THEN <<>>
    ELSE IF Head(segs) \in {<<>>, <<".">>} THEN Meaningful(Tail(segs))
    ELSE <<Head(segs)>> \o Meaningful(Tail(segs))

\* resolving ".." against the root, read from the right: a ".." cancels the
\* nearest name on its left that nothing else cancels; a ".." left over has
\* climbed above the root
RECURSIVE ResolveRight(_, _, _)
ResolveRight(segs, pending, out) ==
    IF segs = <<>> THEN [climbs |-> pending > 0, path |-> out]
    ELSE LET last == segs[Len(segs)]
             rest == SubSeq(segs, 1, Len(segs) - 1)
         IN  IF last = <<".", ".">> THEN ResolveRight(rest, pending + 1, out)
             ELSE IF pending > 0 THEN ResolveRight(rest, pending - 1, out)
             ELSE ResolveRight(rest, 0, <<last>> \o out)

Resolved(path) == ResolveRight(Meaningful(Segments(path)), 0, <<>>)

Under(path, prefix) ==
    /\ Len(prefix) <= Len(path)
    /\ \A i \in 1..Len(prefix) : path[i] = prefix[i]

\* C9: with an allowlist without "*", check_path(p) succeeds only if p,
\* with "." and ".." resolved against "/", lies component-wise under some
\* resolved allowlist entry; a path whose ".." climb above the root is
\* rejected; with no valid entry every path is rejected.
C9_CheckPathUnderPrefix ==
    (acl_call.called /\ \A i \in DOMAIN acl_entries : acl_entries[i] # <<"*">>) =>
        /\ acl_call.result = "Ok" =>
              /\ ~Resolved(acl_call.path).climbs
              /\ \E i \in DOMAIN acl_entries :
                    /\ ~Resolved(acl_entries[i]).climbs
                    /\ Under(Resolved(acl_call.path).path, Resolved(acl_entries[i]).path)
        /\ Resolved(acl_call.path).climbs => acl_call.result = "AclViolation"
        /\ (\A i \in DOMAIN acl_entries : Resolved(acl_entries[i]).climbs)
              => acl_call.result = "AclViolation"

\* a path with a ".." in it is accepted under the allowlist "a"
C9_Witness ==
    /\ acl_call.called
    /\ acl_call.result = "Ok"
    /\ acl_entries = <<<<"a">>>>
    /\ \E i \in DOMAIN Segments(acl_call.path) : Segments(acl_call.path)[i] = <<".", ".">>

----------------------------------------------------------------------------
\* Properties of the handlers.

CallNames == [i \in DOMAIN rq_trace |-> rq_trace[i].call]

\* the storage layer did something in this step
StorageActed ==
    \/ documents' # documents
    \/ doc_call' # doc_call
    \/ rows' # rows
    \/ next_uuid' # next_uuid
    \/ is_pc' \notin {is_pc, "idle"}

\* C7: in IndexDocument and IndexSymbols a request that fails validation is
\* answered with invalid-argument and storage is never invoked for it;
\* storage is invoked, and acts, only after validation, then check_path,
\* then scan_content have passed, in that order.
C7_GatesBeforeStorage ==
    /\ [](rq.op \in IndexOps =>
            /\ (~RequestValid(rq) /\ rq_resp # NoResponse) =>
                  (rq_resp.status = "InvalidArgument" /\ CallNames = <<"validate">>)
            /\ "storage" \in Range(CallNames) =>
                  /\ CallNames = <<"validate", "check_path", "scan_content", "storage">>
                  /\ RequestValid(rq)
                  /\ CheckPathResult(security_config, rq.path) = "Ok"
                  /\ ScanContent(rq.content) = "Ok")
    /\ [][StorageActed => (rq'.op \in IndexOps /\ "storage" \in Range(CallNames'))]_vars

\* an IndexDocument and an IndexSymbols request have passed the three gates
\* and the storage has written a document row and a symbol row
C7_Witness ==
    /\ rq.op = "IndexSymbols"
    /\ rq_resp.status = "Ok"
    /\ rows # {}
    /\ documents # {}

\* C8: GetSymbolGraph, GetReferences, GetDefinitions, GetSymbolAtCommit and
\* CorrelateFailure read no content of a path that check_path rejects, and
\* answer a request for such a path with permission-denied, with or without
\* a commit_id.
C8_AclBeforeContent ==
    rq.op \in ContentOps \cup {"GetSymbolAtCommit", "CorrelateFailure"} =>
        /\ \A i \in DOMAIN rq_trace :
              rq_trace[i].call = "read" =>
                  CheckPathResult(security_config, rq_trace[i].path) = "Ok"
        /\ (/\ rq.op # "CorrelateFailure"
            /\ rq_resp # NoResponse
            /\ RequestValid(rq)
            /\ CheckPathResult(security_config, rq.path) # "Ok")
              => rq_resp.status = "PermissionDenied"

----------------------------------------------------------------------------
\* Properties of the CI event buffer.

\* C10: after any sequence of record_ci_event calls the buffer holds at most
\* 1000 events, exactly the min(n, 1000) most recently recorded ones in
\* arrival order; get_ci_events_for_commit(id) returns exactly the buffered
\* events with that commit id, in the order of the buffer.
C10_LastThousandInOrder ==
    LET n == Len(ci_log)
        kept == IF n < 1000 THEN n ELSE 1000
        ret == ci_ret.events
    IN  /\ Len(ci_events) <= 1000
        /\ Len(ci_events) = kept
        /\ \A i \in 1..kept : ci_events[i] = ci_log[n - kept + i]
        /\ ci_ret.called =>
              /\ Range(ret) = {e \in Range(ci_events) : e.commit_id = ci_ret.commit_id}
              /\ Len(ret) = Cardinality(Range(ret))
              /\ \A i \in 1..(Len(ret) - 1) : ret[i].test_name[2] < ret[i + 1].test_name[2]

\* the window has overflowed, and a query returned some but not all of the
\* buffered events
C10_Witness ==
    /\ Len(ci_log) > 1000
    /\ ci_ret.called
    /\ ci_ret.events # <<>>
    /\ Len(ci_ret.events) < Len(ci_events)

----------------------------------------------------------------------------
\* Properties of the CI failure correlation.

\* C11 as stated: correlate_ci_failure with previous_commit_id absent returns
\* Ok with no suspects for every test_name, failure_message and commit_id.
C11_AbsentPreviousAlwaysEmpty ==
    (cor_call.called /\ cor_call.previous_commit_id = NoCommit) =>
        (cor_call.result.ok /\ cor_call.result.suspects = <<>>)

\* C11 amended: with previous_commit_id absent the call returns Ok with no
\* suspects for every test_name and failure_message when commit_id names a
\* commit of the repository, and an error when it does not.
C11_AbsentPreviousEmptyForKnownCommit ==
    (cor_call.called /\ cor_call.previous_commit_id = NoCommit) =>
        IF cor_call.commit_id \in RepoCommits
        THEN cor_call.result.ok /\ cor_call.result.suspects = <<>>
        ELSE ~cor_call.result.ok

\* a call without previous commit, for a commit whose diff to its parent
\* has relevant paths, returned Ok
C11_Witness ==
    /\ cor_call.called
    /\ cor_call.previous_commit_id = NoCommit
    /\ cor_call.commit_id = CommitB
    /\ cor_call.test_name = <<"t", "e", "s", "t", "_", "f", "o", "o">>
    /\ cor_call.result.ok

\* C12: with previous_commit_id present the suspects are exactly the paths
\* changed between the two commits that score above 0.3, one per path,
\* whatever the delta status, each with its status as change type.
C12_SuspectsAreRelevantChanges ==
    (cor_call.called /\ cor_call.previous_commit_id # NoCommit /\ cor_call.result.ok) =>
        LET changed == ChangedPaths(RepoPaths, cor_call.previous_commit_id[1],
                                    cor_call.commit_id)
            expected == {[path |-> c.path, change_type |-> c.status] :
                            c \in {d \in Range(changed) :
                                      CalculateRelevance(d.path, cor_call.test_name,
                                                         cor_call.failure_message) > 3}}
            suspects == cor_call.result.suspects
        IN  /\ {[path |-> s.path, change_type |-> s.change_type] : s \in Range(suspects)}
                  = expected
            /\ Len(suspects) = Cardinality(expected)

\* C13: calculate_relevance lies in [0, 1]: 0.3 per non-empty token of
\* test_name occurring in the path whatever the case, 0.5 if the failure
\* message contains the path, 0.2 if the path contains "test" or "spec",
\* capped at 1; a test name extended by a separator and a token that occurs
\* in the path never scores lower.  Scores are in tenths.
C13_RelevanceBoundedMonotone ==
    rel_call.called =>
        LET parts == SplitNonAlphanumeric(rel_call.test_name, <<>>, <<>>)
            hits == Cardinality({i \in DOMAIN parts :
                        /\ parts[i] # <<>>
                        /\ Contains(ToLowercase(rel_call.file_path), ToLowercase(parts[i]))})
            sum == 3 * hits
                   + (IF Contains(rel_call.failure_message, rel_call.file_path) THEN 5 ELSE 0)
                   + (IF Contains(rel_call.file_path, <<"t", "e", "s", "t">>)
                         \/ Contains(rel_call.file_path, <<"s", "p", "e", "c">>) THEN 2 ELSE 0)
        IN  /\ rel_call.score \in 0..10
            /\ rel_call.extended \in 0..10
            /\ rel_call.score = IF sum > 10 THEN 10 ELSE sum
            /\ Contains(ToLowercase(rel_call.file_path), ToLowercase(rel_call.token))
                  => rel_call.extended >= rel_call.score

\* a token that occurs in the path lifted a score of 0.8 to the cap
C13_Witness ==
    /\ rel_call.called
    /\ Contains(ToLowercase(rel_call.file_path), ToLowercase(rel_call.token))
    /\ rel_call.score = 8
    /\ rel_call.extended = 10

----------------------------------------------------------------------------
\* Properties of the commit walk.

\* C14: every SymbolVersion in history[path] comes from a delta between a
\* commit and its first parent whose status is Added, Modified, Deleted or
\* Renamed (so none from another status, none from a commit without
\* parent), and previous_path is set exactly when change_type is Renamed.
C14_VersionsFromRecognisedDeltas ==
    \A p \in Range(WalkPaths) : \A i \in DOMAIN symbol_history[p] :
        LET v == symbol_history[p][i]
        IN  /\ v.commit_id \in WalkCommits
            /\ Parents(v.commit_id) # <<>>
            /\ LET status == DeltaStatus(WalkTree(Parents(v.commit_id)[1])[p],
                                         WalkTree(v.commit_id)[p])
               IN  /\ status \in {"Added", "Modified", "Deleted", "Renamed"}
                   /\ v.change_type = status
            /\ (v.previous_path # <<>>) <=> (v.change_type = "Renamed")

\* the walk has processed the root commit, the merge commit and the commit
\* with the type change, and has recorded an addition, a change and a deletion
C14_Witness ==
    /\ icr_pc = "done"
    /\ \A c \in {H1, H2, H4} : \E i \in DOMAIN icr_attempts :
            icr_attempts[i].commit = c /\ icr_attempts[i].ok
    /\ \E i \in DOMAIN symbol_history[<<"n">>] :
            symbol_history[<<"n">>][i].change_type = "Added"
    /\ \E i \in DOMAIN symbol_history[<<"a">>] :
            symbol_history[<<"a">>][i].change_type = "Modified"
    /\ \E i \in DOMAIN symbol_history[<<"l">>] :
            symbol_history[<<"l">>][i].change_type = "Deleted"

\* the commits a call hands to process_commit when its walk does not fail
Eligible(cfg) ==
    SelectSeq(RevWalk(cfg.start_commit, cfg.end_commit),
              LAMBDA c : ~(cfg.max_age_days /\ c \in OldCommits))

\* the revwalk loop itself returns an error (before process_commit is reached)
WalkFails(cfg) ==
    \/ Tip(cfg.end_commit) \notin WalkCommits
    \/ /\ cfg.max_age_days
       /\ \E i \in DOMAIN RevWalk(cfg.start_commit, cfg.end_commit) :
              FaultOf(cfg, RevWalk(cfg.start_commit, cfg.end_commit)[i]) = "time"

C16_DropStopsWalk ==
    icr_dropped =>
        \A i \in DOMAIN icr_attempts : icr_attempts[i].batch <= icr_drop_batch

----------------------------------------------------------------------------
\* Properties of the embedding providers.

\* C17: embed of an empty or whitespace-only text returns the zero vector of
\* length D and calls no provider, whichever provider is configured.
C17_BlankTextZeroVector ==
    (emb_call.called /\ IsBlank(emb_call.text)) =>
        /\ emb_call.result.ok
        /\ emb_call.result.vector = ZeroVector
        /\ emb_call.result.provider_calls = 0

\* the body is an array of exactly D elements, all of them numbers
WellFormed(body) ==
    /\ body.kind = "array"
    /\ Len(body.elems) = EMBEDDING_DIM
    /\ \A i \in DOMAIN body.elems : body.elems[i] = "num"

\* C18: the remote provider returns Ok(v) only for a 2xx response whose
\* `embedding` is an array of exactly D numbers, and then v has length D;
\* every other response is an error.
C18_RemoteOkOnlyWellFormed ==
    (emb_call.called /\ emb_call.provider = "Orchestrator") =>
        /\ emb_call.result.ok <=>
              /\ emb_call.response.sent
              /\ IsSuccess(emb_call.response.status)
              /\ WellFormed(emb_call.response.body)
        /\ emb_call.result.ok => Len(emb_call.result.vector) = EMBEDDING_DIM

----------------------------------------------------------------------------
\* Properties of the request boundary.

\* C19: the top_k the search handlers hand to storage is 5 when the
\* requested value is at most 0, 100 when it is above 100 and the requested
\* value otherwise, so it always lies in 1..100.
C19_TopKClamped ==
    (search_call.called /\ search_call.status = "Ok") =>
        /\ search_call.storage_top_k \in 1..100
        /\ search_call.top_k <= 0 => search_call.storage_top_k = 5
        /\ search_call.top_k > 100 => search_call.storage_top_k = 100
        /\ search_call.top_k \in 1..100 => search_call.storage_top_k = search_call.top_k

\* a request for 101 results reached storage with top_k 100
C19_Witness ==
    /\ search_call.called
    /\ search_call.status = "Ok"
    /\ search_call.top_k = 101
    /\ search_call.storage_top_k = 100

\* C20: path validation rejects exactly the paths that are empty or
\* whitespace-only, longer than 1024 characters, or contain NUL, CR or LF.
C20_PathRejectedExactly ==
    val_call.called =>
        (val_call.accepted <=>
            ~ \/ IsBlank(val_call.path)
              \/ Len(val_call.path) > 1024
              \/ \E i \in DOMAIN val_call.path : val_call.path[i] \in {"NUL", "CR", "LF"})

\* C21: a search query is accepted if and only if it is non-blank and at most
\* 4096 characters long, and a rejected query reaches neither the embedder
\* nor the database.
C21_QueryAcceptedUpTo4096 ==
    (search_call.called /\ search_call.path_prefix = <<>>
        /\ ValidateCommitId(search_call.commit_id)) =>
        LET valid == ~IsBlank(search_call.query) /\ Len(search_call.query) <= 4096
        IN  /\ (search_call.status = "Ok") <=> valid
            /\ ~valid => (search_call.status = "InvalidArgument"
                           /\ search_call.storage_top_k = 0)

\* a commit id that is absent or a non-empty string of hex digits
HexOrAbsent(commit_id) ==
    \/ commit_id = NoCommit
    \/ /\ commit_id[1] # <<>>
       /\ \A i \in DOMAIN commit_id[1] : commit_id[1][i] \in HexDigits

\* C22: a commit_id handed to storage or git is absent or a non-empty string
\* of hex digits; a request whose commit_id has any other character is
\* answered with invalid-argument and touches neither storage nor git.
C22_CommitIdHexOrAbsent ==
    LET touched == \E i \in DOMAIN rq_trace :
                       rq_trace[i].call \in {"storage", "read", "get_symbol_at_commit",
                                             "correlate_ci_failure"}
        wellformed == HexOrAbsent(rq.commit_id) /\ HexOrAbsent(rq.previous_commit_id)
    IN  /\ touched => wellformed
        /\ (~wellformed /\ rq_resp.status # "none") => rq_resp.status = "InvalidArgument"

----------------------------------------------------------------------------
\* Properties of the SymbolKind strings.

\* C23: parsing the string form of a kind gives the kind back, and a string
\* that is the string form of none of the 14 kinds is an error both for
\* from_str and for the hydration of the registry from storage.
C23_KindStringRoundTrip ==
    kind_call.called =>
        /\ kind_call.site = "round_trip" => kind_call.result = kind_call.input
        /\ (kind_call.site # "round_trip"
              /\ kind_call.input \notin {"function", "class", "interface", "enum",
                      "constant", "variable", "type", "module", "method", "property",
                      "namespace", "trait", "impl", "struct"})
              => kind_call.result = "Err"

----------------------------------------------------------------------------
\* More properties of the symbol registry.

\* C24: update_symbol with an id that is not in the registry returns Ok,
\* changes neither registry map and does not call storage.store_symbol.
C24_UpdateUnknownIsNoOp ==
    [][ \A t \in Tasks, id \in Ids, in \in UpdateInputs :
          (~Present(id) /\ UpdateBegin(t, id, in)) =>
              /\ symbols' = symbols
              /\ symbol_index' = symbol_index
              /\ rows' = rows
              /\ rpc'[t] = "idle"
              /\ upd_ret' = [id |-> id, status |-> "Ok", store_called |-> FALSE] ]_vars

\* update_symbol returned for an id the registry does not hold, while the
\* registry holds another Symbol
C24_Witness ==
    /\ upd_ret.id # NoId
    /\ ~Present(upd_ret.id)
    /\ upd_ret.status = "Ok"
    /\ ~upd_ret.store_called
    /\ PresentIds # {}

\* C25: after any sequence of add_child calls, for all registered symbols p
\* and c: c is in the children of p exactly when the parent of c is p.
C25_ChildrenMirrorParent ==
    \A p \in PresentIds, c \in PresentIds :
        (\E i \in DOMAIN symbols[p].children : symbols[p].children[i] = c)
            <=> symbols[c].parent = p

----------------------------------------------------------------------------
\* Properties of the symbol extractor.

\* the SymbolKind of a declarative node kind
SymbolKindOfNode(kind) ==
    CASE kind \in {"function_declaration", "function", "function_item"} -> "Function"
      [] kind \in {"class_declaration", "class"} -> "Class"
      [] kind = "interface_declaration" -> "Interface"
      [] kind \in {"enum_declaration", "enum_item"} -> "Enum"
      [] kind = "method_definition" -> "Method"
      [] kind = "field_definition" -> "Property"
      [] kind = "variable_declarator" -> "Constant"
      [] kind = "struct_item" -> "Struct"
      [] kind = "trait_item" -> "Trait"
      [] kind = "impl_item" -> "Impl"
      [] kind = "mod_item" -> "Module"
      [] OTHER -> "none"

RECURSIVE LexicalSymbols(_)
\* the declarations among the items with, as children, the declarations
\* lexically inside their bodies
LexicalSymbols(items) ==
    IF items = <<>> THEN <<>>
    ELSE LET node == Head(items)
             kind == SymbolKindOfNode(node.kind)
         IN  (IF kind = "none" THEN LexicalSymbols(node.children)
              ELSE <<[name |-> IF node.kind = "impl_item" THEN "impl " \o node.type[1]
                               ELSE node.name[1],
                      kind |-> kind,
                      children |-> IF node.body = 0 THEN <<>>
                                   ELSE LexicalSymbols(node.children[node.body].children)]>>)
             \o LexicalSymbols(Tail(items))

RECURSIVE Shape(_)
\* the extracted symbols without their doc comments
Shape(extracted) ==
    [i \in 1..Len(extracted) |->
        [name |-> extracted[i].name, kind |-> extracted[i].kind,
         children |-> Shape(extracted[i].children)]]

\* C26: for every recognised declarative node kind the declarative nodes
\* inside the body of a matched node are the children of its symbol, in
\* source order, none of them is a top-level symbol, and the output nests as
\* deep as the source does.
C26_ChildrenFollowLexicalNesting ==
    ext_call.called => Shape(ext_call.result) = LexicalSymbols(<<ext_call.tree>>)

\* the declaration of a documented tree whose doc comment is looked at sits
\* last among its siblings: at the top level, or in the body of the class
InClassBody(tree) ==
    Len(tree.children) = 1 /\ tree.children[1].kind = "class_declaration"

SiblingsOfSubject(tree) ==
    IF InClassBody(tree) THEN tree.children[1].children[1].children ELSE tree.children

\* the siblings before the declaration
Before(tree) == SubSeq(SiblingsOfSubject(tree), 1, Len(SiblingsOfSubject(tree)) - 1)

DocCommentOfSubject(tree, extracted) ==
    IF InClassBody(tree) THEN extracted[1].children[1].doc_comment
    ELSE extracted[1].doc_comment

\* the comment and whitespace siblings that directly precede the declaration
CommentBlock(before) ==
    LET stops == {j \in DOMAIN before :
                     before[j].kind \notin CommentKinds \cup WhitespaceKinds}
        last == IF stops = {} THEN 0 ELSE CHOOSE j \in stops : \A k \in stops : k <= j
    IN  SubSeq(before, last + 1, Len(before))

IsDocCommentNode(node) == node.kind \in CommentKinds /\ IsDocText(node.text)

\* C27: the doc comment of a declaration is made of the comments that begin
\* with /** or /// among the comment and whitespace siblings directly before
\* it, up to the first other sibling, joined in source order; there is no
\* doc comment when there is no such comment.
C27_DocCommentFromPrecedingBlock ==
    (ext_call.called /\ ext_call.tree \in DocTrees) =>
        LET docs == SelectSeq(CommentBlock(Before(ext_call.tree)), IsDocCommentNode)
            doc == DocCommentOfSubject(ext_call.tree, ext_call.result)
        IN  /\ Len(ext_call.result) = 1
            /\ docs = <<>> => doc = <<>>
            /\ docs # <<>> => doc = <<JoinLines([i \in 1..Len(docs) |-> docs[i].text])>>

\* a declaration after a statement and two doc comments: both are collected,
\* the first one first
C27_Witness ==
    /\ ext_call.called
    /\ ext_call.tree \in DocTrees
    /\ Before(ext_call.tree) = <<Statement, DocA, DocB>>
    /\ DocCommentOfSubject(ext_call.tree, ext_call.result)
           = <<DocA.text \o <<"LF">> \o DocB.text>>

\* C28: when the extractor fails on a file of a known language, the
\* operation that ran it (index_symbols, get_symbol_at_commit,
\* correlate_ci_failure) returns an error; an empty symbol list in place of
\* a failure is returned only for a file of unknown language.
C28_ExtractorFailureSurfaced ==
    (run_call.called /\ ~run_call.parsed /\ run_call.ret.language \in SupportedLanguages)
        => run_call.ret.status = "Err"

----------------------------------------------------------------------------
\* Properties of the vector search.

\* the distance of a returned row to the query of the call
ResultDistance(result) == 100 - result.score

\* the rows of the searched table that start with the prefix as written and
\* carry the commit asked for
Satisfying ==
    { r \in TableRows(find_call.table) :
        /\ find_call.path_prefix # NoCommit => StartsWith(r.path, find_call.path_prefix[1])
        /\ find_call.commit_id # NoCommit => r.commit_id = find_call.commit_id }

\* C29: search_documents and search_symbols return at most top_k rows, each
\* with a path that starts with the literal path_prefix and with the commit
\* asked for, in non-decreasing cosine distance, and they are the top_k
\* nearest of the rows that satisfy the filters.
C29_SearchFiltersThenRanks ==
    (find_call.called /\ find_call.status = "Ok") =>
        LET res == find_call.results
            dist(r) == CosineDistance(r.embedding, QueryEmbedding(find_call.query))
        IN  /\ Len(res) <= find_call.top_k
            /\ \A i \in DOMAIN res : \E r \in Satisfying : r.id = res[i].id
            /\ \A i, j \in DOMAIN res : i < j => ResultDistance(res[i]) <= ResultDistance(res[j])
            /\ \A r \in Satisfying :
                  (\A i \in DOMAIN res : res[i].id # r.id) =>
                      /\ Len(res) = find_call.top_k
                      /\ \A i \in DOMAIN res : ResultDistance(res[i]) <= dist(r)

----------------------------------------------------------------------------
\* Properties of the in-memory semantic store.

\* the last n elements of a sequence
LastN(s, n) == IF Len(s) <= n THEN s ELSE SubSeq(s, Len(s) - n + 1, Len(s))

\* the live documents of a path, oldest first
LiveOfPath(path) == SelectSeq(sem_order, LAMBDA id : sem_records[id].path = path)

SemConsistent ==
    /\ DOMAIN sem_records = Range(sem_order)
    /\ \A i, j \in DOMAIN sem_order : i # j => sem_order[i] # sem_order[j]
    /\ \A id \in DOMAIN sem_records : sem_records[id].id = id
    /\ \A p \in DOMAIN sem_by_path : sem_by_path[p] # <<>> /\ sem_by_path[p] = LiveOfPath(p)
    /\ \A id \in DOMAIN sem_records : sem_records[id].path \in DOMAIN sem_by_path

\* C30: a store with max_documents = N holds, after every add_document, at
\* most N documents, the N most recently added; the queue, the record map
\* and the path index hold exactly the live ids, and history_for_path
\* returns the live documents of the path in insertion order.
C30_StoreKeepsMostRecent ==
    /\ [](sem_config # NoLimit =>
            /\ Len(sem_order) <= sem_config[1]
            /\ sem_order = LastN(sem_added, sem_config[1])
            /\ SemConsistent)
    /\ [][\A p \in SemPaths :
            (sem_config # NoLimit /\ HistoryForPath(p)) =>
                sem_hist'.entries =
                    [i \in DOMAIN LiveOfPath(p) |->
                        [document_id |-> LiveOfPath(p)[i],
                         commit_id |-> sem_records[LiveOfPath(p)[i]].commit_id]]]_vars

\* a store of two documents after a third and a fourth were added, with
\* live documents on both paths and a history read
C30_Witness ==
    /\ sem_config = <<2>>
    /\ Len(sem_added) = 4
    /\ Len(sem_order) = 2
    /\ DOMAIN sem_by_path = SemPaths
    /\ sem_hist.called
    /\ Len(sem_hist.entries) = 1

----------------------------------------------------------------------------
\* Properties of the audit log.

RECURSIVE Unredacted(_, _)
\* a string other than the redaction marker somewhere in the value, below a
\* key that matches a secret pattern (under: such a key is above the value)
Unredacted(value, under) ==
    CASE value.kind = "String" -> under /\ value.str # "[redacted]"
      [] value.kind = "Array" ->
            \E i \in DOMAIN value.items : Unredacted(value.items[i], under)
      [] value.kind = "Object" ->
            \E i \in DOMAIN value.fields :
                Unredacted(value.fields[i].value, under \/ ShouldMask(value.fields[i].key))
      [] OTHER -> FALSE

\* C31: in the details log_audit emits, no value under a key that matches a
\* secret pattern is unredacted, at any depth, be it a string, an array of
\* strings or a nested object.
C31_SecretValuesRedacted ==
    (audit_call.called /\ audit_call.redacted_details # <<>>)
        => ~Unredacted(audit_call.redacted_details[1], FALSE)

----------------------------------------------------------------------------
\* Concurrency of the symbol registry.

\* C32: registry operations cannot deadlock: the symbol_index lock is taken
\* before the symbols lock, no operation waits for the symbol_index lock
\* while it holds the symbols lock, and every started operation completes
\* under fair scheduling.
C32_RegistryOperationsComplete ==
    /\ [](\A t \in Tasks : symbols_lock = t => rpc[t] # "goc_index")
    /\ \A t \in Tasks : (rpc[t] # "idle") ~> (rpc[t] = "idle")

\* one task holds the index lock and waits for the symbols lock, which the
\* other holds across its store_symbol
C32_Witness ==
    \E t, u \in Tasks :
        /\ t # u
        /\ index_lock = t /\ rpc[t] = "goc_symbols"
        /\ symbols_lock = u /\ rpc[u] = "upd_store"

\* C33: registry operations suspend only on the registry's own locks: no
\* task waits for storage.store_symbol while it holds a registry lock.
C33_NoLockHeldAcrossStorage ==
    \A t \in Tasks : rpc[t] = "upd_store" => (symbols_lock # t /\ index_lock # t)

----------------------------------------------------------------------------
\* More properties of the storage.

RECURSIVE NamesIn(_)
\* the names of the symbols of a forest, at every level
NamesIn(forest) ==
    IF forest = <<>> THEN {}
    ELSE {Head(forest).name} \cup NamesIn(Head(forest).children) \cup NamesIn(Tail(forest))

RECURSIVE CountIn(_)
\* the number of symbols of a forest, at every level
CountIn(forest) ==
    IF forest = <<>> THEN 0
    ELSE 1 + CountIn(Head(forest).children) + CountIn(Tail(forest))

\* the rows inserted since the call began
NewRows == {r \in rows : r.id > is_args.base}

\* C34: on success index_symbols returns the number of symbols of the
\* extracted tree, all levels counted, and has inserted one new row for each
\* of them, with the path and the commit_id of the call.
C34_CountsAndStoresEverySymbol ==
    (is_pc = "done" /\ is_ret.status = "Ok") =>
        /\ is_ret.count = CountIn(is_args.symbols)
        /\ Cardinality(NewRows) = is_ret.count
        /\ {r.name : r \in NewRows} = NamesIn(is_args.symbols)
        /\ \A r \in NewRows : r.path = is_args.path /\ r.commit_id = is_args.commit_id

\* a successful call on a class with two methods and a function
C34_Witness ==
    /\ is_pc = "done"
    /\ is_ret = IsReturn("Ok", 4)
    /\ Len(is_args.symbols) = 2
    /\ Len(is_args.symbols[1].children) = 2

\* C35: the id returned by a successful index_document(path, ...) is the id of
\* the documents row that holds that path after the call, whether the path was
\* new or the call updated an existing row.
C35_ReturnedIdIsRowId ==
    doc_call.result = "Ok" =>
        \E r \in documents : r.path = doc_call.path /\ r.id = doc_call.id

\* the content, location, doc_comment and commit_id last persisted for id: those
\* of its row, or those of a Symbol that was never stored
PersistedFields(table, id) ==
    IF \E r \in table : r.id = id
    THEN LET r == CHOOSE r \in table : r.id = id
         IN  <<r.content, r.start_line, r.metadata, r.commit_id>>
    ELSE <<"", 0, NoDoc, NoCommit>>

\* C36: when store_symbol fails inside update_symbol, the call returns that
\* error and the in-memory Symbol keeps its previous fields, so that when an
\* update_symbol call returns, the in-memory Symbol equals what was last
\* persisted for its id.
C36_FailedUpdateLeavesSymbol ==
    [][\A t \in Tasks :
          (rpc[t] = "upd_store" /\ rpc'[t] = "idle") =>
              LET s == symbols'[rlocal[t].id]
              IN  /\ upd_ret'.id = rlocal[t].id
                  /\ upd_ret'.status = "Err" => rows' = rows
                  /\ <<s.content, s.location, s.doc_comment, s.commit_id>> =
                         PersistedFields(rows', rlocal[t].id)]_vars

\* C37: after any sequence of index_commit_range calls, the history of a path
\* holds at most one SymbolVersion per commit: walking a range that was
\* already indexed adds nothing.
C37_RewalkAddsNothing ==
    \A p \in Range(WalkPaths) :
        \A i, j \in DOMAIN symbol_history[p] :
            symbol_history[p][i].commit_id = symbol_history[p][j].commit_id => i = j

RECURSIVE OneByOne(_, _, _, _)
\* the outcome of the revwalk loop when every commit that passes the age filter
\* is handed to process_commit as soon as it is met
OneByOne(cfg, revwalk, history, count) ==
    IF revwalk = <<>> THEN [ret |-> WalkReturn("Ok", count), history |-> history]
    ELSE LET commit == Head(revwalk)
             ok == FaultOf(cfg, commit) = "none"
         IN  IF cfg.max_age_days /\ FaultOf(cfg, commit) = "time"
             THEN [ret |-> WalkReturn("Err", 0), history |-> history]
             ELSE IF cfg.max_age_days /\ commit \in OldCommits
             THEN OneByOne(cfg, Tail(revwalk), history, count)
             ELSE OneByOne(cfg, Tail(revwalk),
                           IF ok THEN ProcessCommit(history, commit) ELSE history,
                           CountProcessed(count, ok))

\* the outcome that does not depend on batch_size
Unbatched(cfg) ==
    IF Tip(cfg.end_commit) \notin WalkCommits
    THEN [ret |-> WalkReturn("Err", 0), history |-> [p \in Range(WalkPaths) |-> <<>>]]
    ELSE OneByOne(cfg, RevWalk(cfg.start_commit, cfg.end_commit),
                  [p \in Range(WalkPaths) |-> <<>>], 0)

\* C38: for a given repository, range and age cap, the value index_commit_range
\* returns and the per-path history it leaves are the same for every
\* batch_size, 0 and sizes beyond the number of commits included: each commit
\* that passes the age filter is processed once, in walk order, and the last
\* partial batch is processed too.
C38_BatchSizeIrrelevant ==
    icr_pc = "done" =>
        /\ symbol_history = Unbatched(icr_cfg).history
        /\ ~icr_dropped => icr_ret = Unbatched(icr_cfg).ret

\* C39: an id get_or_create_symbol returned for a key is the id a registry
\* built later by new(storage) over the same storage holds for that key, and so
\* returns from get_or_create_symbol, whether or not update_symbol was called
\* for the id before.
C39_IdsSurviveRestart ==
    [][\A last \in LastRowChoices :
          RegistryNew(last) => \A e \in goc_log : symbol_index'[e.key] = e.id]_vars

\* C40: no result of SearchDocuments or SearchSymbols has a path that
\* check_path rejects, with a path_prefix in the request or without one.
C40_ResultsPassAcl ==
    served.status = "Ok" =>
        \A i \in DOMAIN served.results :
            CheckPathResult(ServedAcl, served.results[i].path) = "Ok"

====
